---- MODULE Spec2Model ----
(***************************************************************************)
(* Task board client (TaskBoard.tsx, TaskCard.tsx, TaskDetailsDialog) and  *)
(* the hosted backend it talks to (tasks / profiles tables, change feed).  *)
(* One board instance is modelled together with the remote tables; other   *)
(* clients appear as remote mutations.  A handler runs up to its await in  *)
(* one step and its continuation runs as a later step; the tasks select    *)
(* and the status update are answered by the backend in a step of their    *)
(* own, the other selects are answered and handled in one step.            *)
(***************************************************************************)
EXTENDS Integers, Sequences, FiniteSets, TLC

\* ---- bounds -------------------------------------------------------------
NumProjects == 2
NumTasks == 3
NumUsers == 1
TasksPerProject == 2
\* The events counted are the fetchTasks calls, the drag moves and the
\* mutations made by other clients. A behaviour of Spec holds at most
\* MaxEvents of them, a behaviour of RaceSpec and SyncSpec at most
\* MaxRaceEvents.
MaxEvents == 3
MaxRaceEvents == 4
\* A behaviour of DialogSpec holds at most MaxDialogEvents openings of the
\* dialog and comments of other clients.
MaxDialogEvents == 3
\* A behaviour of CardSpec holds at most MaxCardEvents fetchTasks calls, drag
\* moves and calls of the card.
MaxCardEvents == 2
\* A behaviour of FormSpec holds at most MaxFormEvents openings of the dialog
\* and comments submitted.
MaxFormEvents == 2
\* A behaviour of ProjectSpec and CreateSpec creates at most MaxCreates
\* projects and MaxCreates tasks.
MaxCreates == 2

\* ---- values -------------------------------------------------------------
Null == 0
\* the empty string given for a user id
NoId == -1
Undefined == "undefined"
NoRow == "norow"
NoToast == "none"

\* a text is a sequence of characters
Space == " "

RECURSIVE TrimStart(_)
TrimStart(s) ==
  IF s # <<>> /\ Head(s) = Space THEN TrimStart(Tail(s)) ELSE s

RECURSIVE TrimEnd(_)
TrimEnd(s) ==
  IF s # <<>> /\ s[Len(s)] = Space THEN TrimEnd(SubSeq(s, 1, Len(s) - 1)) ELSE s

\* variant: nothing is trimmed
TrimNone(s) == s

\* String.prototype.trim
Trim(s) == TrimEnd(TrimStart(s))

\* String.prototype.toLowerCase
ToLowerCase(s) ==
  [k \in DOMAIN s |-> CASE s[k] = "A" -> "a" [] s[k] = "B" -> "b" [] OTHER -> s[k]]

\* String.prototype.includes
Includes(s, q) ==
  \E k \in 0..(Len(s) - Len(q)) : SubSeq(s, k + 1, k + Len(q)) = q

\* a description that is NULL
NullText == <<"null">>

\* description || ''
OrEmpty(d) == IF d = NullText THEN <<>> ELSE d

\* editingDescription || null
OrNull(d) == IF d = <<>> THEN NullText ELSE d

ProjectIds == 1..NumProjects
TaskIds == 1..NumTasks
UserIds == 1..NumUsers

\* task_status enum
Statuses == {"todo", "in_progress", "completed"}

\* droppable ids of the three columns
ColumnIds == {"column-todo", "column-in_progress", "column-completed"}

\* variant: the droppable id is taken as the status
StripColumnKeeps(overId) == overId

\* `column-${status}`
ColumnOf(status) ==
  CASE status = "todo" -> "column-todo"
    [] status = "in_progress" -> "column-in_progress"
    [] status = "completed" -> "column-completed"

\* overId.replace('column-', '')
StripColumn(overId) ==
  CASE overId = "column-todo" -> "todo"
    [] overId = "column-in_progress" -> "in_progress"
    [] overId = "column-completed" -> "completed"
    [] OTHER -> overId

\* project a task is created in (project_id is NOT NULL and set at insert):
\* the newest project holds the first TasksPerProject tasks, and so on
ProjectOf(t) ==
  LET p == NumProjects - ((t - 1) \div TasksPerProject) IN IF p < 1 THEN 1 ELSE p

\* title and description a task is created with
TitleOf(t) ==
  CASE t % 3 = 1 -> <<"A">>
    [] t % 3 = 2 -> <<"b">>
    [] OTHER -> <<"b", Space, "a">>

DescriptionOf(t) ==
  CASE t % 3 = 1 -> NullText
    [] t % 3 = 2 -> <<"a", Space>>
    [] OTHER -> <<>>

VARIABLES
  remoteTasks,     \* tasks table: TaskIds -> row or NoRow
  remoteProfiles,  \* profiles table: UserIds -> display_name or NoRow
  remoteOps,       \* number of mutations made by other clients so far
  mounted,         \* the board component is mounted
  projects,        \* useState projects
  selectedProject, \* useState selectedProject
  tasks,           \* useState tasks
  teamMembers,     \* useState teamMembers
  toast,           \* last notification shown
  projFetch,       \* state of the fetchProjects call of the mount effect
  channels,        \* live change subscriptions, in creation order
  fetches,         \* fetchTasks calls in flight, in issue order
  issued,          \* number of fetchTasks calls issued so far
  drags,           \* handleDragEnd calls in flight, in issue order
  moves,           \* number of drag moves started so far
  hist,            \* history of the writes to the task list
  remoteComments,  \* task_comments rows of the task of the card, oldest first
  cardTask,        \* the task of the card looked at, Null when none is rendered
  cardMounted,     \* that card (and the dialog it renders) is mounted
  isDetailsOpen,   \* useState isDetailsOpen of the card
  opens,           \* number of times the dialog has been opened
  comments,        \* useState comments of the dialog
  dialogMembers,   \* useState teamMembers of the dialog
  editing,         \* the editor fields of the dialog
  commentChannels, \* live comment subscriptions, in creation order
  commentFetches,  \* fetchComments calls in flight, in issue order
  memberFetches,   \* number of fetchTeamMembers calls of the dialog in flight
  newComment,      \* useState newComment of the dialog
  loading,         \* useState loading of the dialog
  submit,          \* position of handleSubmitComment
  saving,          \* useState saving of the dialog
  cardCalls,       \* menu and save calls of the card in flight, in issue order
  user,            \* the user prop of the board, Null without a session
  query,           \* useState query
  assigneeFilter,  \* useState assigneeFilter
  myTasksOnly,     \* useState myTasksOnly
  remoteProjects,  \* projects table, in order of creation
  createForms,     \* CreateProjectDialog and CreateTaskDialog state
  creates,         \* inserts of the two creation forms in flight
  projFetches,     \* fetchProjects calls of handleProjectCreated in flight
  auth,            \* Auth page state
  authTables       \* auth.users and the profiles the trigger creates

boardVars == <<remoteTasks, remoteProfiles, remoteOps, mounted, projects,
               selectedProject, tasks, teamMembers, toast, projFetch, channels,
               fetches, issued, drags, moves, hist>>

dialogVars == <<remoteComments, cardTask, cardMounted, isDetailsOpen, opens,
                comments, dialogMembers, editing, commentChannels,
                commentFetches, memberFetches>>

formVars == <<newComment, loading, submit>>

cardVars == <<saving, cardCalls>>

viewVars == <<user, query, assigneeFilter, myTasksOnly>>

createVars == <<remoteProjects, createForms, creates, projFetches>>

authVars == <<auth, authTables>>

restVars == <<createVars, authVars>>

otherVars == <<formVars, cardVars, viewVars, restVars>>

vars == <<boardVars, dialogVars, otherVars>>

\* ---- remote tables ------------------------------------------------------
\* a slot of the tasks table: "absent" (not inserted yet), "live" or "gone"
\* (deleted); row is the stored row of a live slot
NewRow(t, a) ==
  [id |-> t, title |-> TitleOf(t), description |-> DescriptionOf(t),
   status |-> "todo", project_id |-> ProjectOf(t), assigned_to |-> a]

Slot(st, r) == [state |-> st, row |-> r]

Present(t) == remoteTasks[t].state = "live"

RECURSIVE SelectFrom(_, _, _)
SelectFrom(table, p, t) ==
  IF t = 0 THEN <<>>
  ELSE IF table[t].state = "live" /\ table[t].row.project_id = p
       THEN <<table[t].row>> \o SelectFrom(table, p, t - 1)
       ELSE SelectFrom(table, p, t - 1)

\* from('tasks').select('*').eq('project_id', p).order('created_at', desc);
\* a higher id is a later created_at
SelectTasks(p) == SelectFrom(remoteTasks, p, NumTasks)

\* from('profiles').select(...).in('id', ids)
SelectProfiles(ids) ==
  {[id |-> u, display_name |-> remoteProfiles[u]] :
     u \in {v \in ids : remoteProfiles[v] # NoRow}}

\* from('projects').select('*').order('created_at', desc)
SelectProjects ==
  [k \in 1..Len(remoteProjects) |-> remoteProjects[Len(remoteProjects) + 1 - k].id]

\* History: a mutation of the tables marks every fetch whose tasks select has
\* been answered (what it read is no longer what the tables hold), and the
\* last write to the task list likewise
Touch(fs) ==
  [i \in DOMAIN fs |-> IF fs[i].pc = "tasksReq" THEN fs[i] ELSE [fs[i] EXCEPT !.dirty = TRUE]]

Touched(h) == [h EXCEPT !.clean = FALSE]

\* postgres_changes on tasks with filter project_id=eq.p
Notify(chs, p) ==
  [k \in DOMAIN chs |->
     IF chs[k].project = p THEN [chs[k] EXCEPT !.pending = @ + 1] ELSE chs[k]]

\* ---- helpers of the client ---------------------------------------------
RemoveAt(seq, i) == [k \in 1..(Len(seq) - 1) |-> IF k < i THEN seq[k] ELSE seq[k + 1]]

\* tasks.find((t) => t.id === id)
\* variant: a drop on the task's own column is not recognised
SameStatusNever(task, newStatus) == FALSE

\* currentTask.status === newStatus
SameStatus(task, newStatus) == task.status = newStatus

Has(list, id) == \E k \in DOMAIN list : list[k].id = id

Find(list, id) ==
  list[CHOOSE k \in DOMAIN list :
         list[k].id = id /\ \A j \in DOMAIN list : list[j].id = id => k <= j]

\* new Set(data.map((t) => t.assigned_to).filter(Boolean))
AssignedIds(data) == {data[k].assigned_to : k \in DOMAIN data} \ {Null}

\* profiles.reduce(...) ; a failed lookup leaves profilesById = {}
ProfilesById(profiles) ==
  [u \in {pr.id : pr \in profiles} |->
     (CHOOSE pr \in profiles : pr.id = u).display_name]

\* the assignee of a row is kept as its display_name, Undefined when the row
\* has no assignee object;
\* data.map((task) => ({...task, assignee: task.assigned_to ? profilesById[task.assigned_to] : undefined}))
\* variant: a task whose assignee has no profile loses its assigned_to
TasksWithAssigneesCleared(data, byId) ==
  [k \in DOMAIN data |->
     [id |-> data[k].id, title |-> data[k].title,
      description |-> data[k].description, status |-> data[k].status,
      project_id |-> data[k].project_id,
      assigned_to |-> IF data[k].assigned_to \in DOMAIN byId
                      THEN data[k].assigned_to ELSE Null,
      assignee |-> IF data[k].assigned_to # Null /\ data[k].assigned_to \in DOMAIN byId
                   THEN byId[data[k].assigned_to] ELSE Undefined]]

TasksWithAssignees(data, byId) ==
  [k \in DOMAIN data |->
     [id |-> data[k].id, title |-> data[k].title,
      description |-> data[k].description, status |-> data[k].status,
      project_id |-> data[k].project_id, assigned_to |-> data[k].assigned_to,
      assignee |-> IF data[k].assigned_to # Null /\ data[k].assigned_to \in DOMAIN byId
                   THEN byId[data[k].assigned_to] ELSE Undefined]]

\* setTasks on an unmounted component changes nothing
SetTasks(new) == IF mounted THEN new ELSE tasks

\* variant: an optimistic write that writes nothing
WithStatusNone(list, id, newStatus) == list

\* prev.map((t) => (t.id === id ? {...t, status: newStatus} : t))
WithStatus(list, id, newStatus) ==
  [k \in DOMAIN list |->
     IF list[k].id = id THEN [list[k] EXCEPT !.status = newStatus] ELSE list[k]]

\* variant: a snapshot that keeps nothing
SnapshotNone(list) == <<>>

\* const previousTasks = tasks
Snapshot(list) == list

\* fetchTasks up to its first await: the select is issued for the project of
\* the closure
IssueFetch(fs, p, n, origin) ==
  IF p = Null THEN fs
  ELSE Append(fs, [seq |-> n, project |-> p, pc |-> "tasksReq", by |-> origin,
                   data |-> <<>>, profiles |-> {}, dirty |-> FALSE])

\* subscribeToTasks
Subscribe(chs, p) ==
  IF p = Null THEN chs ELSE Append(chs, [project |-> p, pending |-> 0])

\* variant: a cleanup that removes nothing
CleanupNone(chs) == chs

\* the cleanup returned by the effect: removeChannel of the channel of that run
Cleanup(chs) == IF chs = <<>> THEN chs ELSE SubSeq(chs, 1, Len(chs) - 1)

MoveFailed == "Failed to move task. Please try again."
FetchTasksFailed == "Failed to fetch tasks"
FetchProjectsFailed == "Failed to fetch projects"

ProfileNames == {"ann"}

\* ---- initial state ------------------------------------------------------
NoEditing == [status |-> "todo", assignee |-> "unassigned"]

Idle == [pc |-> "idle", user |-> Null]

\* filter "all" of the assignee select; "unassigned" and a user id are the
\* other two kinds
AllAssignees == [kind |-> "all", id |-> Null]

\* the first user is the one signed in
SessionUser == CHOOSE u \in UserIds : \A v \in UserIds : u <= v

\* the initial useState values of the forms and of the filters
\* the projects the table holds at the start
InitProjects ==
  [k \in 1..NumProjects |-> [id |-> k, name |-> <<"a">>, created_by |-> SessionUser]]

\* the two creation dialogs as constructed: closed, empty, not loading
NoCreateForms ==
  [name |-> <<>>, title |-> <<>>, pOpen |-> FALSE, tOpen |-> FALSE,
   pLoading |-> FALSE, tLoading |-> FALSE]

\* the Auth page as constructed
NoCall == [kind |-> "none", email |-> <<>>, meta |-> <<>>]

SignIn ==
  [isLogin |-> TRUE, email |-> <<>>, displayName |-> <<>>, loading |-> FALSE,
   call |-> NoCall, toast |-> NoToast]

\* the forms and the filters as the components are constructed
FiltersIdle ==
  /\ createForms = NoCreateForms
  /\ creates = <<>>
  /\ projFetches = <<>>
  /\ auth = SignIn
  /\ authTables = [users |-> <<>>, profiles |-> <<>>]
  /\ newComment = <<>>
  /\ loading = FALSE
  /\ submit = Idle
  /\ saving = FALSE
  /\ cardCalls = <<>>
  /\ query = <<>>
  /\ assigneeFilter = AllAssignees
  /\ myTasksOnly = FALSE

FormsIdle ==
  /\ FiltersIdle
  /\ user = SessionUser

\* no card is rendered while the task list is empty
NoDialog ==
  /\ remoteComments = <<>>
  /\ cardTask = Null
  /\ cardMounted = FALSE
  /\ isDetailsOpen = FALSE
  /\ opens = 0
  /\ comments = <<>>
  /\ dialogMembers = {}
  /\ editing = NoEditing
  /\ commentChannels = <<>>
  /\ commentFetches = <<>>
  /\ memberFetches = 0

NoCard == NoDialog /\ FormsIdle

\* The tables hold every task but the last, which is inserted later.
InitTables ==
  /\ remoteProjects = InitProjects
  /\ remoteTasks = [t \in TaskIds |->
       IF t < NumTasks THEN Slot("live", NewRow(t, IF t = 1 THEN 1 ELSE Null))
       ELSE Slot("absent", NewRow(t, Null))]
  /\ remoteProfiles = [u \in UserIds |-> "ann"]
  /\ remoteOps = 0

\* The board has just been mounted: its mount effect has issued fetchProjects.
Init ==
  /\ InitTables
  /\ mounted = TRUE
  /\ projects = <<>>
  /\ selectedProject = Null
  /\ tasks = <<>>
  /\ teamMembers = {}
  /\ toast = NoToast
  /\ projFetch = "req"
  /\ channels = <<>>
  /\ fetches = <<>>
  /\ issued = 0
  /\ drags = <<>>
  /\ moves = 0
  /\ hist = [last |-> "init", seq |-> 0, project |-> Null, synced |-> FALSE,
             clean |-> FALSE]
  /\ NoCard

\* ---- the backend --------------------------------------------------------
\* the tasks select of fetch i is answered with the rows of its project
ServeTasks(i) ==
  /\ fetches[i].pc = "tasksReq"
  /\ fetches' = [fetches EXCEPT ![i].pc = "tasksOk",
                                ![i].data = SelectTasks(fetches[i].project)]
  /\ UNCHANGED otherVars
  /\ UNCHANGED dialogVars
  /\ UNCHANGED <<remoteTasks, remoteProfiles, remoteOps, mounted, projects,
                 selectedProject, tasks, teamMembers, toast, projFetch,
                 channels, issued, drags, hist, moves>>

\* update({status}).eq('id', id) of drag j is applied; an update of a row that
\* no longer exists changes nothing and is no error
ServeDrag(j) ==
  LET d == drags[j] IN
  /\ d.pc = "req"
  /\ remoteTasks' = IF Present(d.id)
                    THEN [remoteTasks EXCEPT ![d.id].row.status = d.status]
                    ELSE remoteTasks
  /\ channels' = IF Present(d.id) THEN Notify(channels, ProjectOf(d.id)) ELSE channels
  /\ drags' = [drags EXCEPT ![j].pc = "ok"]
  /\ fetches' = IF Present(d.id) THEN Touch(fetches) ELSE fetches
  /\ hist' = IF Present(d.id) THEN Touched(hist) ELSE hist
  /\ UNCHANGED otherVars
  /\ UNCHANGED dialogVars
  /\ UNCHANGED <<remoteProfiles, remoteOps, mounted, projects, selectedProject,
                 tasks, teamMembers, toast, projFetch, issued, moves>>

\* ---- other clients ------------------------------------------------------
RemoteInsert(t, a) ==
  /\ remoteTasks[t].state = "absent"
  /\ remoteTasks' = [remoteTasks EXCEPT ![t] = Slot("live", NewRow(t, a))]
  /\ channels' = Notify(channels, ProjectOf(t))
  /\ remoteOps' = remoteOps + 1
  /\ fetches' = Touch(fetches)
  /\ hist' = Touched(hist)
  /\ UNCHANGED otherVars
  /\ UNCHANGED dialogVars
  /\ UNCHANGED <<remoteProfiles, mounted, projects, selectedProject, tasks,
                 teamMembers, toast, projFetch, issued, drags, moves>>

RemoteUpdate(t, s) ==
  /\ Present(t)
  /\ s # remoteTasks[t].row.status
  /\ remoteTasks' = [remoteTasks EXCEPT ![t].row.status = s]
  /\ channels' = Notify(channels, ProjectOf(t))
  /\ remoteOps' = remoteOps + 1
  /\ fetches' = Touch(fetches)
  /\ hist' = Touched(hist)
  /\ UNCHANGED otherVars
  /\ UNCHANGED dialogVars
  /\ UNCHANGED <<remoteProfiles, mounted, projects, selectedProject, tasks,
                 teamMembers, toast, projFetch, issued, drags, moves>>

RemoteDelete(t) ==
  /\ Present(t)
  /\ remoteTasks' = [remoteTasks EXCEPT ![t].state = "gone"]
  /\ channels' = Notify(channels, ProjectOf(t))
  /\ remoteOps' = remoteOps + 1
  /\ fetches' = Touch(fetches)
  /\ hist' = Touched(hist)
  /\ UNCHANGED otherVars
  /\ UNCHANGED dialogVars
  /\ UNCHANGED <<remoteProfiles, mounted, projects, selectedProject, tasks,
                 teamMembers, toast, projFetch, issued, drags, moves>>

\* a profile row is created, renamed or removed; profiles is not in the
\* realtime publication
RemoteProfile(u, v) ==
  /\ v # remoteProfiles[u]
  /\ remoteProfiles' = [remoteProfiles EXCEPT ![u] = v]
  /\ remoteOps' = remoteOps + 1
  /\ fetches' = Touch(fetches)
  /\ hist' = Touched(hist)
  /\ UNCHANGED otherVars
  /\ UNCHANGED dialogVars
  /\ UNCHANGED <<remoteTasks, mounted, projects, selectedProject, tasks,
                 teamMembers, toast, projFetch, channels, issued, drags, moves>>

\* ---- the board ----------------------------------------------------------
NoOver == "none"

\* variant: a fetch that merges, keeping the listed tasks it did not read
FetchResultMerged(f) ==
  TasksWithAssignees(f.data, ProfilesById(f.profiles))
    \o SelectSeq(tasks, LAMBDA t : \A k \in DOMAIN f.data : f.data[k].id # t.id)

\* what a fetch hands to setTasks: tasksWithAssignees
FetchResult(f) == TasksWithAssignees(f.data, ProfilesById(f.profiles))

\* hist.last is the kind of the last write to the task list: "fetch" (a
\* fetch issued by the effect), "refetch" (a fetch issued by a change
\* notification), "drag" (an optimistic write) or "revert"; seq and project
\* are those of the fetch; clean says that the tables have not been mutated
\* since that fetch read them; synced says that a fetch for the selected project
\* has been applied since it was selected
Wrote(kind, n, p, c) ==
  [last |-> kind, seq |-> n, project |-> p,
   synced |-> hist.synced \/ (kind \in {"fetch", "refetch"} /\ p = selectedProject),
   clean |-> c]

\* the write of a fetch to the task list, with its record in the history
ApplyFetch(f) ==
  /\ tasks' = SetTasks(FetchResult(f))
  /\ hist' = IF mounted
             THEN Wrote(IF f.by = "change" THEN "refetch" ELSE "fetch", f.seq,
                        f.project, ~f.dirty)
             ELSE hist

\* fetchProjects of the mount effect completes. On data, setProjects and, as
\* the closure's selectedProject is null, setSelectedProject(data[0].id); the
\* effect on selectedProject then runs fetchTasks and subscribeToTasks.
FetchProjectsOk ==
  /\ projFetch = "req"
  /\ projFetch' = "done"
  /\ IF mounted
     THEN /\ projects' = SelectProjects
          /\ selectedProject' = IF Len(SelectProjects) > 0 THEN SelectProjects[1] ELSE Null
          /\ fetches' = IssueFetch(fetches, selectedProject', issued + 1, "effect")
          /\ issued' = IF selectedProject' = Null THEN issued ELSE issued + 1
          /\ channels' = Subscribe(channels, selectedProject')
     ELSE UNCHANGED <<projects, selectedProject, fetches, issued, channels>>
  /\ UNCHANGED otherVars
  /\ UNCHANGED dialogVars
  /\ UNCHANGED <<remoteTasks, remoteProfiles, remoteOps, mounted, tasks,
                 teamMembers, toast, drags, hist, moves>>

FetchProjectsFail ==
  /\ projFetch = "req"
  /\ projFetch' = "done"
  /\ toast' = FetchProjectsFailed
  /\ UNCHANGED otherVars
  /\ UNCHANGED dialogVars
  /\ UNCHANGED <<remoteTasks, remoteProfiles, remoteOps, mounted, projects,
                 selectedProject, tasks, teamMembers, channels, fetches,
                 issued, drags, hist, moves>>

\* click on the button of project p: setSelectedProject(p); the effect's
\* cleanup of the previous run, then fetchTasks and subscribeToTasks
SelectProject(p) ==
  /\ mounted
  /\ \E k \in DOMAIN projects : projects[k] = p
  /\ p # selectedProject
  /\ selectedProject' = p
  /\ channels' = Subscribe(IF selectedProject = Null THEN channels ELSE Cleanup(channels), p)
  /\ fetches' = IssueFetch(fetches, p, issued + 1, "effect")
  /\ issued' = issued + 1
  /\ hist' = [hist EXCEPT !.synced = FALSE]
  /\ UNCHANGED otherVars
  /\ UNCHANGED dialogVars
  /\ UNCHANGED <<remoteTasks, remoteProfiles, remoteOps, mounted, projects,
                 tasks, teamMembers, toast, projFetch, drags, moves>>

\* the board is unmounted: the effect's cleanup runs
Unmount ==
  /\ mounted
  /\ mounted' = FALSE
  /\ channels' = IF selectedProject = Null THEN channels ELSE Cleanup(channels)
  /\ UNCHANGED otherVars
  /\ UNCHANGED dialogVars
  /\ UNCHANGED <<remoteTasks, remoteProfiles, remoteOps, projects,
                 selectedProject, tasks, teamMembers, toast, projFetch,
                 fetches, issued, drags, hist, moves>>

\* the callback of channel k: fetchTasks of the render that subscribed
DeliverChange(k) ==
  /\ channels[k].pending > 0
  /\ channels' = [channels EXCEPT ![k].pending = @ - 1]
  /\ fetches' = IssueFetch(fetches, channels[k].project, issued + 1, "change")
  /\ issued' = issued + 1
  /\ UNCHANGED otherVars
  /\ UNCHANGED dialogVars
  /\ UNCHANGED <<remoteTasks, remoteProfiles, remoteOps, mounted, projects,
                 selectedProject, tasks, teamMembers, toast, projFetch, drags,
                 hist, moves>>

\* fetchTasks after the tasks select returned data
FetchOnTasks(i) ==
  LET f == fetches[i] IN
  /\ f.pc = "tasksOk"
  /\ IF AssignedIds(f.data) = {}
     THEN /\ ApplyFetch(f)
          /\ teamMembers' = IF mounted THEN {} ELSE teamMembers
          /\ fetches' = RemoveAt(fetches, i)
     ELSE /\ fetches' = [fetches EXCEPT ![i].pc = "profReq"]
          /\ UNCHANGED <<tasks, teamMembers, hist>>
  /\ UNCHANGED otherVars
  /\ UNCHANGED dialogVars
  /\ UNCHANGED <<remoteTasks, remoteProfiles, remoteOps, mounted, projects,
                 selectedProject, toast, projFetch, channels, issued, drags,
                 moves>>

\* variant: a failed tasks select that clears the list
FetchOnTasksErrorClears(i) ==
  /\ fetches[i].pc = "tasksReq"
  /\ toast' = FetchTasksFailed
  /\ tasks' = <<>>
  /\ fetches' = RemoveAt(fetches, i)
  /\ UNCHANGED otherVars
  /\ UNCHANGED dialogVars
  /\ UNCHANGED <<remoteTasks, remoteProfiles, remoteOps, mounted, projects,
                 selectedProject, teamMembers, projFetch, channels,
                 issued, drags, hist, moves>>

\* fetchTasks after the tasks select returned an error (the call failed
\* without reaching the table, so the failure and its handling are one step)
FetchOnTasksError(i) ==
  /\ fetches[i].pc = "tasksReq"
  /\ toast' = FetchTasksFailed
  /\ fetches' = RemoveAt(fetches, i)
  /\ UNCHANGED otherVars
  /\ UNCHANGED dialogVars
  /\ UNCHANGED <<remoteTasks, remoteProfiles, remoteOps, mounted, projects,
                 selectedProject, tasks, teamMembers, projFetch, channels,
                 issued, drags, hist, moves>>

\* fetchTasks after the assignee lookup: setTasks, then the member lookup.
\* The profiles table is read when the response is handled: a lookup is
\* answered and handled in one step.
FetchOnProfiles(i) ==
  LET f == [fetches[i] EXCEPT !.profiles = SelectProfiles(AssignedIds(fetches[i].data))] IN
  /\ fetches[i].pc = "profReq"
  /\ ApplyFetch(f)
  /\ fetches' = [fetches EXCEPT ![i].pc = "memReq", ![i].profiles = {}]
  /\ UNCHANGED otherVars
  /\ UNCHANGED dialogVars
  /\ UNCHANGED <<remoteTasks, remoteProfiles, remoteOps, mounted, projects,
                 selectedProject, teamMembers, toast, projFetch, channels,
                 issued, drags, moves>>

\* fetchTasks after a failed assignee lookup: profiles is null, the error is
\* not read, profilesById stays {}
FetchOnProfilesError(i) ==
  LET f == [fetches[i] EXCEPT !.profiles = {}] IN
  /\ fetches[i].pc = "profReq"
  /\ ApplyFetch(f)
  /\ fetches' = [fetches EXCEPT ![i].pc = "memReq", ![i].profiles = {}]
  /\ UNCHANGED otherVars
  /\ UNCHANGED dialogVars
  /\ UNCHANGED <<remoteTasks, remoteProfiles, remoteOps, mounted, projects,
                 selectedProject, teamMembers, toast, projFetch, channels,
                 issued, drags, moves>>

\* fetchTasks after the member lookup: setTeamMembers(members)
FetchOnMembers(i) ==
  LET f == fetches[i] IN
  /\ f.pc = "memReq"
  /\ teamMembers' = IF mounted THEN SelectProfiles(AssignedIds(f.data)) ELSE teamMembers
  /\ fetches' = RemoveAt(fetches, i)
  /\ UNCHANGED otherVars
  /\ UNCHANGED dialogVars
  /\ UNCHANGED <<remoteTasks, remoteProfiles, remoteOps, mounted, projects,
                 selectedProject, tasks, toast, projFetch, channels, issued,
                 drags, hist, moves>>

\* fetchTasks after a failed member lookup: members is null, nothing is set
FetchOnMembersError(i) ==
  /\ fetches[i].pc = "memReq"
  /\ fetches' = RemoveAt(fetches, i)
  /\ UNCHANGED otherVars
  /\ UNCHANGED dialogVars
  /\ UNCHANGED <<remoteTasks, remoteProfiles, remoteOps, mounted, projects,
                 selectedProject, tasks, teamMembers, toast, projFetch,
                 channels, issued, drags, hist, moves>>

\* handleDragEnd up to its await
DragEnd(active, over) ==
  /\ mounted
  /\ selectedProject # Null
  /\ IF over = NoOver
     THEN UNCHANGED <<tasks, drags, hist, moves>>
     ELSE LET newStatus == StripColumn(over) IN
          IF ~Has(tasks, active) \/ SameStatus(Find(tasks, active), newStatus)
          THEN UNCHANGED <<tasks, drags, hist, moves>>
          ELSE /\ moves' = moves + 1
               /\ tasks' = WithStatus(tasks, active, newStatus)
               /\ drags' = Append(drags,
                    [id |-> active, status |-> newStatus, pc |-> "req",
                     previousTasks |-> Snapshot(tasks),
                     before |-> tasks, from |-> Find(tasks, active).status])
               /\ hist' = Wrote("drag", 0, Null, FALSE)
  /\ UNCHANGED otherVars
  /\ UNCHANGED dialogVars
  /\ UNCHANGED <<remoteTasks, remoteProfiles, remoteOps, mounted, projects,
                 selectedProject, teamMembers, toast, projFetch, channels,
                 fetches, issued>>

\* handleDragEnd after the update, no error
DragOnOk(j) ==
  /\ drags[j].pc = "ok"
  /\ drags' = RemoveAt(drags, j)
  /\ UNCHANGED otherVars
  /\ UNCHANGED dialogVars
  /\ UNCHANGED <<remoteTasks, remoteProfiles, remoteOps, mounted, projects,
                 selectedProject, tasks, teamMembers, toast, projFetch,
                 channels, fetches, issued, hist, moves>>

\* handleDragEnd after the update returned an error (rejected, or never
\* reached the table): revert and toast
DragOnError(j) ==
  /\ drags[j].pc = "req"
  /\ tasks' = SetTasks(drags[j].previousTasks)
  /\ toast' = MoveFailed
  /\ hist' = IF mounted THEN Wrote("revert", 0, Null, FALSE) ELSE hist
  /\ drags' = RemoveAt(drags, j)
  /\ UNCHANGED otherVars
  /\ UNCHANGED dialogVars
  /\ UNCHANGED <<remoteTasks, remoteProfiles, remoteOps, mounted, projects,
                 selectedProject, teamMembers, projFetch, channels, fetches,
                 issued, moves>>

\* ---- the card and its details dialog -------------------------------------
\* a task_comments row; a later insert has a higher id and a later created_at
NewComment(t, u, text) ==
  [id |-> Len(remoteComments) + 1, task_id |-> t, user_id |-> u, comment |-> text]

\* from('task_comments').select(...).eq('task_id', t).order('created_at', asc)
SelectComments(t) == SelectSeq(remoteComments, LAMBDA c : c.task_id = t)

\* postgres_changes on task_comments with filter task_id=eq.t
NotifyComments(chs, t) ==
  [k \in DOMAIN chs |->
     IF chs[k].task = t THEN [chs[k] EXCEPT !.pending = @ + 1] ELSE chs[k]]

\* fetchComments up to its await
IssueComments(fs, t) == Append(fs, [task |-> t, pc |-> "req", data |-> <<>>])

\* subscribeToComments: the channel is created; the function it returns is
\* the only thing that removes it
SubscribeToComments(chs, t) == Append(chs, [task |-> t, pending |-> 0])

\* task.assigned_to || 'unassigned'
EditorOf(a) == [unassigned |-> a = Null, id |-> a]

\* the editors of the dialog, as the effect sets them from the task
EditorsOf(task) ==
  [title |-> task.title, description |-> OrEmpty(task.description),
   status |-> task.status, assignee |-> EditorOf(task.assigned_to)]

\* the effect on [open, task.id] of the dialog: with open it runs
\* fetchComments, subscribeToComments (whose result is dropped) and
\* fetchTeamMembers and resets the editors; it returns no cleanup
DetailsEffect(open) ==
  IF open
  THEN /\ commentFetches' = IssueComments(commentFetches, cardTask)
       /\ commentChannels' = SubscribeToComments(commentChannels, cardTask)
       /\ memberFetches' = memberFetches + 1
       /\ editing' = EditorsOf(Find(tasks, cardTask))
  ELSE UNCHANGED <<commentFetches, commentChannels, memberFetches, editing>>

\* click on the card: setIsDetailsOpen(true)
OpenDetails ==
  /\ cardMounted
  /\ ~isDetailsOpen
  /\ isDetailsOpen' = TRUE
  /\ opens' = opens + 1
  /\ DetailsEffect(TRUE)
  /\ UNCHANGED <<remoteComments, cardTask, cardMounted, comments, dialogMembers>>
  /\ UNCHANGED otherVars
  /\ UNCHANGED boardVars

\* the dialog is dismissed: onOpenChange(false)
CloseDetails ==
  /\ cardMounted
  /\ isDetailsOpen
  /\ isDetailsOpen' = FALSE
  /\ DetailsEffect(FALSE)
  /\ UNCHANGED <<remoteComments, cardTask, cardMounted, opens, comments,
                 dialogMembers>>
  /\ UNCHANGED otherVars
  /\ UNCHANGED boardVars

\* the card leaves the board (its task left the list, or the board went
\* away): the dialog is unmounted with it, no effect of it has a cleanup
CardUnmount ==
  /\ cardMounted
  /\ cardMounted' = FALSE
  /\ isDetailsOpen' = FALSE
  /\ UNCHANGED <<remoteComments, cardTask, opens, comments, dialogMembers,
                 editing, commentChannels, commentFetches, memberFetches>>
  /\ UNCHANGED otherVars
  /\ UNCHANGED boardVars

\* the status select of the edit form
EditStatus(s) ==
  /\ cardMounted
  /\ isDetailsOpen
  /\ s # editing.status
  /\ editing' = [editing EXCEPT !.status = s]
  /\ UNCHANGED <<remoteComments, cardTask, cardMounted, isDetailsOpen, opens,
                 comments, dialogMembers, commentChannels, commentFetches,
                 memberFetches>>
  /\ UNCHANGED otherVars
  /\ UNCHANGED boardVars

\* the comments select of fetch i is answered
ServeComments(i) ==
  /\ commentFetches[i].pc = "req"
  /\ commentFetches' = [commentFetches EXCEPT
                          ![i].pc = "ok",
                          ![i].data = SelectComments(commentFetches[i].task)]
  /\ UNCHANGED <<remoteComments, cardTask, cardMounted, isDetailsOpen, opens,
                 comments, dialogMembers, editing, commentChannels,
                 memberFetches>>
  /\ UNCHANGED otherVars
  /\ UNCHANGED boardVars

\* fetchComments after its await, no error: setComments(data)
CommentsOnData(i) ==
  /\ commentFetches[i].pc = "ok"
  /\ comments' = IF cardMounted THEN commentFetches[i].data ELSE comments
  /\ commentFetches' = RemoveAt(commentFetches, i)
  /\ UNCHANGED <<remoteComments, cardTask, cardMounted, isDetailsOpen, opens,
                 dialogMembers, editing, commentChannels, memberFetches>>
  /\ UNCHANGED otherVars
  /\ UNCHANGED boardVars

\* fetchComments after its await, error: nothing is set, nothing is shown
CommentsOnError(i) ==
  /\ commentFetches[i].pc = "req"
  /\ commentFetches' = RemoveAt(commentFetches, i)
  /\ UNCHANGED <<remoteComments, cardTask, cardMounted, isDetailsOpen, opens,
                 comments, dialogMembers, editing, commentChannels,
                 memberFetches>>
  /\ UNCHANGED otherVars
  /\ UNCHANGED boardVars

\* fetchTeamMembers of the dialog after its await: every profile row
MembersOnData ==
  /\ memberFetches > 0
  /\ memberFetches' = memberFetches - 1
  /\ dialogMembers' = IF cardMounted THEN SelectProfiles(UserIds) ELSE dialogMembers
  /\ UNCHANGED <<remoteComments, cardTask, cardMounted, isDetailsOpen, opens,
                 comments, editing, commentChannels, commentFetches>>
  /\ UNCHANGED otherVars
  /\ UNCHANGED boardVars

\* fetchTeamMembers of the dialog after a failed select: data is null
MembersOnError ==
  /\ memberFetches > 0
  /\ memberFetches' = memberFetches - 1
  /\ UNCHANGED <<remoteComments, cardTask, cardMounted, isDetailsOpen, opens,
                 comments, dialogMembers, editing, commentChannels,
                 commentFetches>>
  /\ UNCHANGED otherVars
  /\ UNCHANGED boardVars

\* the callback of comment channel k: fetchComments
DeliverComment(k) ==
  /\ commentChannels[k].pending > 0
  /\ commentChannels' = [commentChannels EXCEPT ![k].pending = @ - 1]
  /\ commentFetches' = IssueComments(commentFetches, commentChannels[k].task)
  /\ UNCHANGED <<remoteComments, cardTask, cardMounted, isDetailsOpen, opens,
                 comments, dialogMembers, editing, memberFetches>>
  /\ UNCHANGED otherVars
  /\ UNCHANGED boardVars

\* another client comments on task t
RemoteComment(t) ==
  /\ Present(t)
  /\ remoteComments' = Append(remoteComments,
                              NewComment(t, SessionUser, <<"b">>))
  /\ commentChannels' = NotifyComments(commentChannels, t)
  /\ UNCHANGED <<cardTask, cardMounted, isDetailsOpen, opens, comments,
                 dialogMembers, editing, commentFetches, memberFetches>>
  /\ UNCHANGED otherVars
  /\ UNCHANGED boardVars

\* ---- the columns and the filters of the board ----------------------------
\* variant: a column that takes every task
PartitionAll(list, status) == list

\* tasks.filter((t) => t.status === status)
Partition(list, status) == SelectSeq(list, LAMBDA t : t.status = status)

\* applyFilters: the assignee filter
FilterAssignee(list, af) ==
  CASE af.kind = "unassigned" -> SelectSeq(list, LAMBDA t : t.assigned_to = Null)
    [] af.kind = "all" -> list
    [] OTHER -> SelectSeq(list, LAMBDA t : t.assigned_to = af.id)

\* applyFilters: myTasksOnly && user?.id
FilterMine(list, mine, u) ==
  IF mine /\ u # Null THEN SelectSeq(list, LAMBDA t : t.assigned_to = u) ELSE list

\* variant: the assignee filter compares with its value whatever it is
ApplyFiltersExact(list, af, mine, u) ==
  FilterMine(SelectSeq(list, LAMBDA t : t.assigned_to = af.id), mine, u)

ApplyFilters(list, af, mine, u) == FilterMine(FilterAssignee(list, af), mine, u)

\* t.title.toLowerCase().includes(q) || (t.description || '').toLowerCase().includes(q)
Matches(t, q) ==
  \/ Includes(ToLowerCase(t.title), q)
  \/ Includes(ToLowerCase(OrEmpty(t.description)), q)

FilterByQuery(list, text) ==
  IF Trim(text) = <<>> THEN list
  ELSE LET q == ToLowerCase(text) IN SelectSeq(list, LAMBDA t : Matches(t, q))

\* what a column is given to render
Displayed(status) ==
  FilterByQuery(ApplyFilters(Partition(tasks, status), assigneeFilter, myTasksOnly, user),
                query)

\* what is typed into the search input
Queries == {<<>>, <<Space>>, <<"a">>, <<"A">>, <<"a", Space>>}

\* the values the assignee select offers
AssigneeOptions ==
  {AllAssignees, [kind |-> "unassigned", id |-> Null]}
    \cup {[kind |-> "id", id |-> m.id] : m \in teamMembers}

\* the search input
SetQuery(text) ==
  /\ mounted
  /\ text # query
  /\ query' = text
  /\ UNCHANGED <<user, assigneeFilter, myTasksOnly>>
  /\ UNCHANGED <<boardVars, dialogVars, formVars, cardVars, restVars>>

\* the assignee select
SetAssigneeFilter(af) ==
  /\ mounted
  /\ af # assigneeFilter
  /\ assigneeFilter' = af
  /\ UNCHANGED <<user, query, myTasksOnly>>
  /\ UNCHANGED <<boardVars, dialogVars, formVars, cardVars, restVars>>

\* variant: the switch stores the filtered list as the task list
SetMyTasksOnlyStored(checked) ==
  /\ mounted
  /\ checked # myTasksOnly
  /\ myTasksOnly' = checked
  /\ tasks' = FilterMine(tasks, checked, user)
  /\ UNCHANGED <<user, query, assigneeFilter>>
  /\ UNCHANGED <<remoteTasks, remoteProfiles, remoteOps, mounted, projects,
                 selectedProject, teamMembers, toast, projFetch, channels,
                 fetches, issued, drags, moves, hist>>
  /\ UNCHANGED <<dialogVars, formVars, cardVars, restVars>>

\* the my-tasks switch
SetMyTasksOnly(checked) ==
  /\ mounted
  /\ checked # myTasksOnly
  /\ myTasksOnly' = checked
  /\ UNCHANGED <<user, query, assigneeFilter>>
  /\ UNCHANGED <<boardVars, dialogVars, formVars, cardVars, restVars>>

\* TaskCard: task.assignee?.display_name, or "Unassigned"
AssigneeLabel(task) ==
  IF task.assignee = Undefined THEN "Unassigned" ELSE task.assignee

\* ---- the comment form of the dialog --------------------------------------
\* what is typed into the comment input
CommentInputs == {<<>>, <<Space>>, <<"a", Space>>}

CommentFailed == "Failed to add comment"

\* the comment input, disabled while loading
TypeComment(text) ==
  /\ cardMounted
  /\ isDetailsOpen
  /\ ~loading
  /\ text # newComment
  /\ newComment' = text
  /\ UNCHANGED <<loading, submit>>
  /\ UNCHANGED <<boardVars, dialogVars, cardVars, viewVars, restVars>>

\* handleSubmitComment up to its first await; the input and the submit button
\* are disabled while loading
SubmitComment ==
  /\ cardMounted
  /\ isDetailsOpen
  /\ ~loading
  /\ IF Trim(newComment) = <<>>
     THEN UNCHANGED <<loading, submit>>
     ELSE /\ loading' = TRUE
          /\ submit' = [pc |-> "getUser", user |-> Null]
  /\ UNCHANGED newComment
  /\ UNCHANGED <<boardVars, dialogVars, cardVars, viewVars, restVars>>

\* handleSubmitComment after auth.getUser returned user u: the insert is issued
GetUserOk(u) ==
  /\ submit.pc = "getUser"
  /\ submit' = [pc |-> "insert", user |-> u]
  /\ UNCHANGED <<newComment, loading>>
  /\ UNCHANGED <<boardVars, dialogVars, cardVars, viewVars, restVars>>

\* handleSubmitComment after auth.getUser returned no user: return
GetUserNone ==
  /\ submit.pc = "getUser"
  /\ submit' = Idle
  /\ UNCHANGED <<newComment, loading>>
  /\ UNCHANGED <<boardVars, dialogVars, cardVars, viewVars, restVars>>

\* the insert into task_comments is applied
ServeInsert ==
  /\ submit.pc = "insert"
  /\ submit' = [submit EXCEPT !.pc = "inserted"]
  /\ remoteComments' = Append(remoteComments,
                              NewComment(cardTask, submit.user, Trim(newComment)))
  /\ commentChannels' = NotifyComments(commentChannels, cardTask)
  /\ UNCHANGED <<newComment, loading>>
  /\ UNCHANGED <<cardTask, cardMounted, isDetailsOpen, opens, comments,
                 dialogMembers, editing, commentFetches, memberFetches>>
  /\ UNCHANGED <<boardVars, cardVars, viewVars, restVars>>

\* variant: the submitted comment is appended to the local list
InsertOnOkAppends ==
  /\ submit.pc = "inserted"
  /\ submit' = Idle
  /\ loading' = FALSE
  /\ newComment' = <<>>
  /\ comments' = Append(comments, remoteComments[Len(remoteComments)])
  /\ UNCHANGED <<remoteComments, cardTask, cardMounted, isDetailsOpen, opens,
                 dialogMembers, editing, commentChannels, commentFetches,
                 memberFetches>>
  /\ UNCHANGED <<boardVars, cardVars, viewVars, restVars>>

\* handleSubmitComment after the insert, no error
InsertOnOk ==
  /\ submit.pc = "inserted"
  /\ submit' = Idle
  /\ loading' = FALSE
  /\ newComment' = <<>>
  /\ UNCHANGED <<boardVars, dialogVars, cardVars, viewVars, restVars>>

\* handleSubmitComment after the insert returned an error
InsertOnError ==
  /\ submit.pc = "insert"
  /\ submit' = Idle
  /\ loading' = FALSE
  /\ toast' = CommentFailed
  /\ UNCHANGED newComment
  /\ UNCHANGED <<remoteTasks, remoteProfiles, remoteOps, mounted, projects,
                 selectedProject, tasks, teamMembers, projFetch, channels,
                 fetches, issued, drags, moves, hist>>
  /\ UNCHANGED <<dialogVars, cardVars, viewVars, restVars>>

\* ---- the menu of the card and the save of the dialog ----------------------
StatusFailed == "Failed to update task status"
SaveFailed == "Failed to save changes"
Saved == "Task updated successfully"
DeleteFailed == "Failed to delete task"
Deleted == "The task has been successfully deleted"

\* variant: a save that also files the task under the first project
UpdatesRefiled(e) ==
  [title |-> e.title, description |-> OrNull(e.description), status |-> e.status,
   assigned_to |-> IF e.assignee.unassigned THEN Null ELSE e.assignee.id,
   project_id |-> 1]

\* handleSave: updates
Updates(e) ==
  [title |-> e.title, description |-> OrNull(e.description), status |-> e.status,
   assigned_to |-> IF e.assignee.unassigned THEN Null ELSE e.assignee.id]

\* from('tasks').update(u).eq('id', ...): the columns named in u are written
ApplyUpdates(row, u) ==
  [f \in DOMAIN row |-> IF f \in DOMAIN u THEN u[f] ELSE row[f]]

\* variant: the menu writes the new status into the local list at once
MenuStatusOptimistic(newStatus) ==
  /\ cardMounted
  /\ cardCalls' = Append(cardCalls, [kind |-> "menu", pc |-> "req", id |-> cardTask,
                                     updates |-> [status |-> newStatus]])
  /\ tasks' = IF Has(tasks, cardTask) THEN WithStatus(tasks, cardTask, newStatus)
             ELSE tasks
  /\ UNCHANGED saving
  /\ UNCHANGED <<remoteTasks, remoteProfiles, remoteOps, mounted, projects,
                 selectedProject, teamMembers, toast, projFetch, channels,
                 fetches, issued, drags, moves, hist>>
  /\ UNCHANGED <<dialogVars, formVars, viewVars, restVars>>

\* handleStatusChange up to its await
MenuStatus(newStatus) ==
  /\ cardMounted
  /\ cardCalls' = Append(cardCalls, [kind |-> "menu", pc |-> "req", id |-> cardTask,
                                     updates |-> [status |-> newStatus]])
  /\ UNCHANGED saving
  /\ UNCHANGED <<boardVars, dialogVars, formVars, viewVars, restVars>>

\* handleDelete up to its await; the card is rendered for a task of the list
MenuDelete ==
  /\ cardMounted
  /\ Has(tasks, cardTask)
  /\ cardCalls' = Append(cardCalls, [kind |-> "delete", pc |-> "req", id |-> cardTask])
  /\ UNCHANGED saving
  /\ UNCHANGED <<boardVars, dialogVars, formVars, viewVars, restVars>>

\* handleSave up to its await; the button is disabled while saving
Save ==
  /\ cardMounted
  /\ isDetailsOpen
  /\ ~saving
  /\ saving' = TRUE
  /\ cardCalls' = Append(cardCalls, [kind |-> "save", pc |-> "req", id |-> cardTask,
                                     updates |-> Updates(editing)])
  /\ UNCHANGED <<boardVars, dialogVars, formVars, viewVars, restVars>>

\* the update or the delete of a card call is applied to the tasks table
ServeCard(c) ==
  LET call == cardCalls[c] IN
  /\ call.pc = "req"
  /\ cardCalls' = [cardCalls EXCEPT ![c].pc = "ok"]
  /\ remoteTasks' = IF ~Present(call.id) THEN remoteTasks
                    ELSE IF call.kind = "delete"
                    THEN [remoteTasks EXCEPT ![call.id].state = "gone"]
                    ELSE [remoteTasks EXCEPT
                            ![call.id].row = ApplyUpdates(@, call.updates)]
  /\ channels' = IF Present(call.id) THEN Notify(channels, ProjectOf(call.id))
                 ELSE channels
  /\ fetches' = IF Present(call.id) THEN Touch(fetches) ELSE fetches
  /\ hist' = IF Present(call.id) THEN Touched(hist) ELSE hist
  /\ UNCHANGED saving
  /\ UNCHANGED <<remoteProfiles, remoteOps, mounted, projects, selectedProject,
                 tasks, teamMembers, toast, projFetch, issued, drags, moves>>
  /\ UNCHANGED <<dialogVars, formVars, viewVars, restVars>>

\* handleStatusChange, handleDelete and handleSave after the call, no error:
\* onRefresh is the board's fetchTasks; the delete shows its toast, the save
\* shows its toast and closes the dialog
CardOnOk(c) ==
  LET call == cardCalls[c] IN
  /\ call.pc = "ok"
  /\ cardCalls' = RemoveAt(cardCalls, c)
  /\ fetches' = IssueFetch(fetches, selectedProject, issued + 1, "refresh")
  /\ issued' = issued + 1
  /\ IF call.kind = "save"
     THEN /\ saving' = FALSE
          /\ toast' = Saved
          /\ isDetailsOpen' = FALSE
     ELSE /\ toast' = IF call.kind = "delete" THEN Deleted ELSE toast
          /\ UNCHANGED <<saving, isDetailsOpen>>
  /\ UNCHANGED <<remoteTasks, remoteProfiles, remoteOps, mounted, projects,
                 selectedProject, tasks, teamMembers, projFetch, channels,
                 drags, moves, hist>>
  /\ UNCHANGED <<remoteComments, cardTask, cardMounted, opens, comments,
                 dialogMembers, editing, commentChannels, commentFetches,
                 memberFetches>>
  /\ UNCHANGED <<formVars, viewVars, restVars>>

\* handleStatusChange, handleDelete and handleSave after the call returned an
\* error
CardOnError(c) ==
  LET call == cardCalls[c] IN
  /\ call.pc = "req"
  /\ cardCalls' = RemoveAt(cardCalls, c)
  /\ saving' = IF call.kind = "save" THEN FALSE ELSE saving
  /\ toast' = IF call.kind = "save" THEN SaveFailed
            ELSE IF call.kind = "delete" THEN DeleteFailed ELSE StatusFailed
  /\ UNCHANGED <<remoteTasks, remoteProfiles, remoteOps, mounted, projects,
                 selectedProject, tasks, teamMembers, projFetch, channels,
                 fetches, issued, drags, moves, hist>>
  /\ UNCHANGED <<dialogVars, formVars, viewVars, restVars>>

\* ---- the creation dialogs ------------------------------------------------
\* what is typed into the name input of a project and the title input of a task
NameInputs == {<<>>, <<Space>>, <<"a">>}

ProjectFailed == "Failed to create project. Please try again."
ProjectCreated == "Your new project has been successfully created."
TaskFailed == "Failed to create task"
TaskCreated == "Your task has been successfully created"

\* userId={user?.id || ''}
UserIdOf(u) == IF u = Null THEN NoId ELSE u

\* the New Project buttons: setIsCreateProjectOpen(true)
OpenCreateProject ==
  /\ mounted
  /\ ~createForms.pOpen
  /\ createForms' = [createForms EXCEPT !.pOpen = TRUE]
  /\ UNCHANGED <<remoteProjects, creates, projFetches>>
  /\ UNCHANGED <<boardVars, dialogVars, formVars, cardVars, viewVars, authVars>>

\* the name input of CreateProjectDialog
TypeProjectName(text) ==
  /\ mounted
  /\ createForms.pOpen
  /\ text # createForms.name
  /\ createForms' = [createForms EXCEPT !.name = text]
  /\ UNCHANGED <<remoteProjects, creates, projFetches>>
  /\ UNCHANGED <<boardVars, dialogVars, formVars, cardVars, viewVars, authVars>>

\* CreateProjectDialog.handleSubmit up to its await; the name input is
\* required and the submit button is disabled while loading. onProjectCreated
\* is the handleProjectCreated of this render, whose fetchProjects reads this
\* render's selectedProject.
SubmitProject ==
  /\ mounted
  /\ createForms.pOpen
  /\ ~createForms.pLoading
  /\ createForms.name # <<>>
  /\ IF Trim(createForms.name) = <<>>
     THEN UNCHANGED <<createForms, creates>>
     ELSE /\ createForms' = [createForms EXCEPT !.pLoading = TRUE]
          /\ creates' = Append(creates,
               [kind |-> "project", pc |-> "req", made |-> Null,
                sel |-> selectedProject,
                row |-> [name |-> createForms.name, created_by |-> UserIdOf(user)]])
  /\ UNCHANGED <<remoteProjects, projFetches>>
  /\ UNCHANGED <<boardVars, dialogVars, formVars, cardVars, viewVars, authVars>>

\* the New Task button, disabled while no project is selected
OpenCreateTask ==
  /\ mounted
  /\ selectedProject # Null
  /\ ~createForms.tOpen
  /\ createForms' = [createForms EXCEPT !.tOpen = TRUE]
  /\ UNCHANGED <<remoteProjects, creates, projFetches>>
  /\ UNCHANGED <<boardVars, dialogVars, formVars, cardVars, viewVars, authVars>>

\* the title input of CreateTaskDialog
TypeTitle(text) ==
  /\ mounted
  /\ createForms.tOpen
  /\ text # createForms.title
  /\ createForms' = [createForms EXCEPT !.title = text]
  /\ UNCHANGED <<remoteProjects, creates, projFetches>>
  /\ UNCHANGED <<boardVars, dialogVars, formVars, cardVars, viewVars, authVars>>

\* CreateTaskDialog.handleSubmit up to its await; the title input is required
\* and the submit button is disabled while loading. projectId is the
\* selectedProject of this render, as is the one fetchTasks reads.
SubmitTask ==
  /\ mounted
  /\ createForms.tOpen
  /\ ~createForms.tLoading
  /\ createForms.title # <<>>
  /\ IF selectedProject = Null
     THEN UNCHANGED <<createForms, creates>>
     ELSE /\ createForms' = [createForms EXCEPT !.tLoading = TRUE]
          /\ creates' = Append(creates,
               [kind |-> "task", pc |-> "req", made |-> Null,
                sel |-> selectedProject,
                row |-> [title |-> createForms.title, project_id |-> selectedProject,
                         created_by |-> UserIdOf(user)]])
  /\ UNCHANGED <<remoteProjects, projFetches>>
  /\ UNCHANGED <<boardVars, dialogVars, formVars, cardVars, viewVars, authVars>>

\* the insert of a project is applied; made is the id the table gives the row
ServeProject(c) ==
  LET call == creates[c]
      id == Len(remoteProjects) + 1 IN
  /\ call.kind = "project"
  /\ call.pc = "req"
  /\ remoteProjects' = Append(remoteProjects,
                              [id |-> id, name |-> call.row.name,
                               created_by |-> call.row.created_by])
  /\ creates' = [creates EXCEPT ![c].pc = "ok", ![c].made = id]
  /\ UNCHANGED <<createForms, projFetches>>
  /\ UNCHANGED <<boardVars, dialogVars, formVars, cardVars, viewVars, authVars>>

\* the insert of a task is applied, in a free slot of its project
ServeTask(c, t) ==
  LET call == creates[c] IN
  /\ call.kind = "task"
  /\ call.pc = "req"
  /\ remoteTasks[t].state = "absent"
  /\ ProjectOf(t) = call.row.project_id
  /\ remoteTasks' = [remoteTasks EXCEPT
                       ![t] = Slot("live", [NewRow(t, Null) EXCEPT
                                              !.title = call.row.title])]
  /\ channels' = Notify(channels, ProjectOf(t))
  /\ fetches' = Touch(fetches)
  /\ hist' = Touched(hist)
  /\ creates' = [creates EXCEPT ![c].pc = "ok", ![c].made = t]
  /\ UNCHANGED <<remoteProjects, createForms, projFetches>>
  /\ UNCHANGED <<remoteProfiles, remoteOps, mounted, projects, selectedProject,
                 tasks, teamMembers, toast, projFetch, issued, drags, moves>>
  /\ UNCHANGED <<dialogVars, formVars, cardVars, viewVars, authVars>>

\* handleSubmit of a creation dialog after the insert, no error: the toast,
\* the form reset, and handleProjectCreated (fetchProjects, close) or
\* handleTaskCreated (fetchTasks, close)
CreateOnOk(c) ==
  LET call == creates[c] IN
  /\ call.pc = "ok"
  /\ creates' = RemoveAt(creates, c)
  /\ IF call.kind = "project"
     THEN /\ toast' = ProjectCreated
          /\ createForms' = [createForms EXCEPT
                               !.pLoading = FALSE, !.name = <<>>, !.pOpen = FALSE]
          /\ projFetches' = Append(projFetches,
               [pc |-> "req", sel |-> call.sel, made |-> call.made, data |-> <<>>])
          /\ UNCHANGED <<fetches, issued>>
     ELSE /\ toast' = TaskCreated
          /\ createForms' = [createForms EXCEPT
                               !.tLoading = FALSE, !.title = <<>>, !.tOpen = FALSE]
          /\ fetches' = IssueFetch(fetches, call.sel, issued + 1, "refresh")
          /\ issued' = issued + 1
          /\ UNCHANGED projFetches
  /\ UNCHANGED remoteProjects
  /\ UNCHANGED <<remoteTasks, remoteProfiles, remoteOps, mounted, projects,
                 selectedProject, tasks, teamMembers, projFetch, channels,
                 drags, moves, hist>>
  /\ UNCHANGED <<dialogVars, formVars, cardVars, viewVars, authVars>>

\* handleSubmit of a creation dialog after the insert returned an error
CreateOnError(c) ==
  LET call == creates[c] IN
  /\ call.pc = "req"
  /\ creates' = RemoveAt(creates, c)
  /\ toast' = IF call.kind = "project" THEN ProjectFailed ELSE TaskFailed
  /\ createForms' = IF call.kind = "project"
                    THEN [createForms EXCEPT !.pLoading = FALSE]
                    ELSE [createForms EXCEPT !.tLoading = FALSE]
  /\ UNCHANGED <<remoteProjects, projFetches>>
  /\ UNCHANGED <<remoteTasks, remoteProfiles, remoteOps, mounted, projects,
                 selectedProject, tasks, teamMembers, projFetch, channels,
                 fetches, issued, drags, moves, hist>>
  /\ UNCHANGED <<dialogVars, formVars, cardVars, viewVars, authVars>>

\* the projects select of a fetchProjects of handleProjectCreated is answered
ServeProjects(i) ==
  /\ projFetches[i].pc = "req"
  /\ projFetches' = [projFetches EXCEPT ![i].pc = "ok", ![i].data = SelectProjects]
  /\ UNCHANGED <<remoteProjects, createForms, creates>>
  /\ UNCHANGED <<boardVars, dialogVars, formVars, cardVars, viewVars, authVars>>

\* fetchProjects: data.length > 0 && !selectedProject, with the selectedProject
\* of the render that made the call
ProjectToSelect(f) ==
  IF f.data # <<>> /\ f.sel = Null THEN f.data[1] ELSE selectedProject

\* fetchProjects of handleProjectCreated after its select: setProjects, and
\* setSelectedProject, whose effect fetches the tasks and subscribes
ProjectsOnData(i) ==
  LET f == projFetches[i]
      p == ProjectToSelect(f) IN
  /\ f.pc = "ok"
  /\ projFetches' = RemoveAt(projFetches, i)
  /\ IF mounted
     THEN /\ projects' = f.data
          /\ selectedProject' = p
          /\ IF p # selectedProject
             THEN /\ channels' = Subscribe(IF selectedProject = Null THEN channels
                                           ELSE Cleanup(channels), p)
                  /\ fetches' = IssueFetch(fetches, p, issued + 1, "effect")
                  /\ issued' = issued + 1
                  /\ hist' = [hist EXCEPT !.synced = FALSE]
             ELSE UNCHANGED <<channels, fetches, issued, hist>>
     ELSE UNCHANGED <<projects, selectedProject, channels, fetches, issued, hist>>
  /\ UNCHANGED <<remoteProjects, createForms, creates>>
  /\ UNCHANGED <<remoteTasks, remoteProfiles, remoteOps, mounted, tasks,
                 teamMembers, toast, projFetch, drags, moves>>
  /\ UNCHANGED <<dialogVars, formVars, cardVars, viewVars, authVars>>

\* ---- the sign-up ----------------------------------------------------------
At == "@"

Emails == {<<"a", At, "x">>, <<"b", At, "x">>}

\* what is typed into the display name input
DisplayNames == {<<>>, <<Space>>, <<"c">>}

\* the display_name of a sign-up's metadata: absent, or any text
MetaNames == {NullText} \cup DisplayNames

RECURSIVE UpTo(_, _)
\* the text before the first d of text, the whole text when it holds no d
UpTo(text, d) ==
  IF text = <<>> \/ Head(text) = d THEN <<>>
  ELSE <<Head(text)>> \o UpTo(Tail(text), d)

\* split_part(text, d, 1)
SplitPart(text, d) == UpTo(text, d)

\* COALESCE(a, b): the first argument that is not NULL
Coalesce(a, b) == IF a = NullText THEN b ELSE a

\* handle_new_user: the profile row of the new row of auth.users
HandleNewUser(new) ==
  [id |-> new.id, display_name |-> Coalesce(new.meta, SplitPart(new.email, At))]

\* an insert into auth.users, with the trigger on_auth_user_created
InsertUser(tables, email, meta) ==
  LET new == [id |-> Len(tables.users) + 1, email |-> email, meta |-> meta] IN
  [users |-> Append(tables.users, new),
   profiles |-> Append(tables.profiles, HandleNewUser(new))]

Registered(email) == \E k \in DOMAIN authTables.users : authTables.users[k].email = email

Welcome == "You have successfully logged in."
AccountCreated == "Welcome to TaskFlow. You can now start managing your tasks."
AuthFailed == "An error occurred during authentication"

\* the toggle between sign-in and sign-up
SetIsLogin ==
  /\ auth' = [auth EXCEPT !.isLogin = ~auth.isLogin]
  /\ UNCHANGED authTables
  /\ UNCHANGED <<boardVars, dialogVars, formVars, cardVars, viewVars, createVars>>

\* the email input
SetEmail(text) ==
  /\ text # auth.email
  /\ auth' = [auth EXCEPT !.email = text]
  /\ UNCHANGED authTables
  /\ UNCHANGED <<boardVars, dialogVars, formVars, cardVars, viewVars, createVars>>

\* the display name input, rendered in sign-up mode only
SetDisplayName(text) ==
  /\ ~auth.isLogin
  /\ text # auth.displayName
  /\ auth' = [auth EXCEPT !.displayName = text]
  /\ UNCHANGED authTables
  /\ UNCHANGED <<boardVars, dialogVars, formVars, cardVars, viewVars, createVars>>

\* handleAuth up to its await; the email input is required, the display name
\* input is required in sign-up mode, the submit button is disabled while
\* loading
HandleAuth ==
  /\ ~auth.loading
  /\ auth.email # <<>>
  /\ ~auth.isLogin => auth.displayName # <<>>
  /\ auth' = [auth EXCEPT
                !.loading = TRUE,
                !.call = [kind |-> IF auth.isLogin THEN "signIn" ELSE "signUp",
                          email |-> auth.email, meta |-> auth.displayName]]
  /\ UNCHANGED authTables
  /\ UNCHANGED <<boardVars, dialogVars, formVars, cardVars, viewVars, createVars>>

\* handleAuth after its await returned no error: a sign-up has inserted the
\* user, a sign-in has found it
AuthOnOk ==
  /\ auth.call.kind # "none"
  /\ IF auth.call.kind = "signUp"
     THEN /\ ~Registered(auth.call.email)
          /\ authTables' = InsertUser(authTables, auth.call.email, auth.call.meta)
          /\ auth' = [auth EXCEPT !.loading = FALSE, !.call = NoCall,
                                  !.toast = AccountCreated]
     ELSE /\ Registered(auth.call.email)
          /\ auth' = [auth EXCEPT !.loading = FALSE, !.call = NoCall,
                                  !.toast = Welcome]
          /\ UNCHANGED authTables
  /\ UNCHANGED <<boardVars, dialogVars, formVars, cardVars, viewVars, createVars>>

\* handleAuth after its await threw
AuthOnError ==
  /\ auth.call.kind # "none"
  /\ auth' = [auth EXCEPT !.loading = FALSE, !.call = NoCall, !.toast = AuthFailed]
  /\ UNCHANGED authTables
  /\ UNCHANGED <<boardVars, dialogVars, formVars, cardVars, viewVars, createVars>>

\* a sign-up received from another client of the backend
SignUpElsewhere(email, meta) ==
  /\ ~Registered(email)
  /\ authTables' = InsertUser(authTables, email, meta)
  /\ UNCHANGED auth
  /\ UNCHANGED <<boardVars, dialogVars, formVars, cardVars, viewVars, createVars>>

\* ---- specification ------------------------------------------------------
\* the step leaves at most n counted events
Within(n) == issued' + moves' + remoteOps' <= n

\* there is room for one more counted event
Room(n) == issued + moves + remoteOps < n

Backend ==
  \/ \E i \in DOMAIN fetches : ServeTasks(i)
  \/ \E j \in DOMAIN drags : ServeDrag(j)

FetchFailures ==
  \/ FetchProjectsFail
  \/ \E i \in DOMAIN fetches :
       FetchOnTasksError(i) \/ FetchOnProfilesError(i) \/ FetchOnMembersError(i)

DragFailures == \E j \in DOMAIN drags : DragOnError(j)

Others(n) ==
  \/ \E t \in TaskIds, a \in {Null} \cup UserIds : Room(n) /\ RemoteInsert(t, a)
  \/ \E t \in TaskIds, s \in Statuses : Room(n) /\ RemoteUpdate(t, s)
  \/ \E t \in TaskIds : Room(n) /\ RemoteDelete(t)
  \/ \E u \in UserIds, v \in ProfileNames \cup {NoRow} : Room(n) /\ RemoteProfile(u, v)

Fetching(n) ==
  \/ FetchProjectsOk /\ Within(n)
  \/ \E p \in ProjectIds : Room(n) /\ SelectProject(p)
  \/ \E k \in DOMAIN channels : Room(n) /\ DeliverChange(k)
  \/ \E i \in DOMAIN fetches : FetchOnTasks(i) \/ FetchOnProfiles(i) \/ FetchOnMembers(i)

Dragging(n) ==
  \/ \E t \in TaskIds, o \in ColumnIds \cup {NoOver} : Room(n) /\ DragEnd(t, o)
  \/ \E j \in DOMAIN drags : DragOnOk(j)

Next ==
  \/ Fetching(MaxEvents)
  \/ Dragging(MaxEvents)
  \/ Backend
  \/ Others(MaxEvents)
  \/ DragFailures

\* the board when no select fails
Spec == Init /\ [][Next]_vars

FaultNext ==
  \/ Fetching(MaxEvents)
  \/ Dragging(MaxEvents)
  \/ Backend
  \/ Others(MaxEvents)
  \/ DragFailures
  \/ FetchFailures

\* the board when any remote call may fail
FaultSpec == Init /\ [][FaultNext]_vars

RaceNext ==
  \/ Fetching(MaxRaceEvents)
  \/ Dragging(MaxRaceEvents)
  \/ Backend
  \/ Others(MaxRaceEvents)
  \/ DragFailures

\* the same board as Spec with room for one more event
RaceSpec == Init /\ [][RaceNext]_vars

FetchNext ==
  \/ Fetching(MaxEvents)
  \/ \E i \in DOMAIN fetches : ServeTasks(i)
  \/ Others(MaxEvents)
  \/ FetchFailures

\* the board without drag moves, when any select may fail
FetchSpec == Init /\ [][FetchNext]_vars

LifeNext ==
  \/ Fetching(MaxEvents)
  \/ Unmount
  \/ \E i \in DOMAIN fetches : ServeTasks(i)
  \/ Others(MaxEvents)

\* the board without drag moves, when no select fails, until it is unmounted
LifeSpec == Init /\ [][LifeNext]_vars

SyncNext ==
  \/ Fetching(MaxRaceEvents)
  \/ Dragging(MaxRaceEvents)
  \/ Backend
  \/ Others(MaxRaceEvents)

\* the board when no remote call fails and it stays mounted
SyncSpec == Init /\ [][SyncNext]_vars

\* the board has loaded its first project and shows one card per task; one of
\* these cards is looked at
DialogBoard ==
  /\ InitTables
  /\ mounted = TRUE
  /\ projects = SelectProjects
  /\ selectedProject = SelectProjects[1]
  /\ tasks = TasksWithAssignees(SelectTasks(selectedProject),
               ProfilesById(SelectProfiles(AssignedIds(SelectTasks(selectedProject)))))
  /\ teamMembers = SelectProfiles(AssignedIds(SelectTasks(selectedProject)))
  /\ toast = NoToast
  /\ projFetch = "done"
  /\ channels = Subscribe(<<>>, selectedProject)
  /\ fetches = <<>>
  /\ issued = 1
  /\ drags = <<>>
  /\ moves = 0
  /\ hist = [last |-> "fetch", seq |-> 1, project |-> selectedProject,
             synced |-> TRUE, clean |-> TRUE]
  /\ cardTask \in {tasks[k].id : k \in DOMAIN tasks}
  /\ cardMounted = TRUE
  /\ isDetailsOpen = FALSE
  /\ opens = 0
  /\ comments = <<>>
  /\ dialogMembers = {}
  /\ editing = EditorsOf(Find(tasks, cardTask))
  /\ commentChannels = <<>>
  /\ commentFetches = <<>>
  /\ memberFetches = 0
  /\ FormsIdle

\* a loaded board and one of its cards, no comment written yet
DialogInit == DialogBoard /\ remoteComments = <<>>

\* at most MaxDialogEvents openings and remote comments
DialogWithin == opens' + Len(remoteComments') <= MaxDialogEvents

DialogNext ==
  \/ OpenDetails /\ DialogWithin
  \/ CloseDetails
  \/ CardUnmount
  \/ \E s \in Statuses : EditStatus(s)
  \/ \E i \in DOMAIN commentFetches :
       ServeComments(i) \/ CommentsOnData(i) \/ CommentsOnError(i)
  \/ MembersOnData
  \/ MembersOnError
  \/ \E k \in DOMAIN commentChannels : DeliverComment(k)
  \/ \E t \in TaskIds : RemoteComment(t) /\ DialogWithin

\* one card of a loaded board and its details dialog
DialogSpec == DialogInit /\ [][DialogNext]_vars

CommentNext ==
  \/ OpenDetails /\ DialogWithin
  \/ CloseDetails
  \/ \E text \in CommentInputs : TypeComment(text)
  \/ SubmitComment
  \/ \E u \in UserIds : GetUserOk(u)
  \/ GetUserNone
  \/ ServeInsert /\ DialogWithin
  \/ InsertOnOk
  \/ InsertOnError
  \/ \E i \in DOMAIN commentFetches : ServeComments(i) \/ CommentsOnData(i)
  \/ MembersOnData
  \/ \E k \in DOMAIN commentChannels : DeliverComment(k)

\* the details dialog of one card and its comment form
CommentSpec == DialogInit /\ [][CommentNext]_vars

\* room for one more fetch, move, remote mutation or card call
CardRoom == issued + moves + remoteOps + Len(cardCalls) < MaxCardEvents

CardNext ==
  \/ Has(tasks, cardTask) /\ opens = 0 /\ OpenDetails
  \/ \E s \in Statuses : EditStatus(s)
  \/ \E s \in Statuses : CardRoom /\ MenuStatus(s)
  \/ CardRoom /\ MenuDelete
  \/ CardRoom /\ Save
  \/ \E c \in DOMAIN cardCalls : ServeCard(c) \/ CardOnOk(c) \/ CardOnError(c)
  \/ \E t \in TaskIds, o \in ColumnIds : CardRoom /\ DragEnd(t, o)
  \/ \E j \in DOMAIN drags : ServeDrag(j) \/ DragOnOk(j) \/ DragOnError(j)
  \/ \E i \in DOMAIN fetches :
       ServeTasks(i) \/ FetchOnTasks(i) \/ FetchOnProfiles(i) \/ FetchOnMembers(i)

\* one card of a loaded board: its menu, its dialog's save, and the drags
CardSpec == DialogInit /\ [][CardNext]_vars

\* the tasks of the first listed project that the tables hold
OnBoard == {t \in TaskIds : t < NumTasks /\ ProjectOf(t) = SelectProjects[1]}

\* a signed-in user who is assigned no task
Visitor == NumUsers + 1

\* the user prop: no session, an assignee, or another signed-in user
Sessions == {Null} \cup UserIds \cup {Visitor}

\* The board has loaded its first project, whose tasks other clients have
\* moved and assigned; the filters are as constructed.
ViewInit ==
  /\ remoteProjects = InitProjects
  /\ \E st \in [OnBoard -> Statuses], as \in [OnBoard -> {Null} \cup UserIds] :
       remoteTasks = [t \in TaskIds |->
         IF t \in OnBoard
         THEN Slot("live", [NewRow(t, as[t]) EXCEPT !.status = st[t]])
         ELSE Slot(IF t < NumTasks THEN "live" ELSE "absent", NewRow(t, Null))]
  /\ remoteProfiles = [u \in UserIds |-> "ann"]
  /\ remoteOps = 0
  /\ mounted = TRUE
  /\ projects = SelectProjects
  /\ selectedProject = SelectProjects[1]
  /\ tasks = TasksWithAssignees(SelectTasks(selectedProject),
               ProfilesById(SelectProfiles(AssignedIds(SelectTasks(selectedProject)))))
  /\ teamMembers = SelectProfiles(AssignedIds(SelectTasks(selectedProject)))
  /\ toast = NoToast
  /\ projFetch = "done"
  /\ channels = Subscribe(<<>>, selectedProject)
  /\ fetches = <<>>
  /\ issued = 1
  /\ drags = <<>>
  /\ moves = 0
  /\ hist = [last |-> "fetch", seq |-> 1, project |-> selectedProject,
             synced |-> TRUE, clean |-> TRUE]
  /\ NoDialog
  /\ FiltersIdle
  /\ user \in Sessions

ViewNext ==
  \/ \E text \in Queries : SetQuery(text)
  \/ \E af \in AssigneeOptions : SetAssigneeFilter(af)
  \/ \E checked \in BOOLEAN : SetMyTasksOnly(checked)

\* the filters of a loaded board
ViewSpec == ViewInit /\ [][ViewNext]_vars

\* a loaded board and one of its cards, whose task another client has
\* commented on
FormInit ==
  /\ DialogBoard
  /\ remoteComments = <<[id |-> 1, task_id |-> cardTask, user_id |-> SessionUser,
                         comment |-> <<"b">>]>>

\* at most MaxFormEvents openings of the dialog and comments submitted
FormWithin == opens' + Len(remoteComments') <= MaxFormEvents + 1

FormNext ==
  \/ OpenDetails /\ FormWithin
  \/ CloseDetails
  \/ \E text \in CommentInputs : TypeComment(text)
  \/ SubmitComment
  \/ \E u \in UserIds : GetUserOk(u)
  \/ GetUserNone
  \/ ServeInsert /\ FormWithin
  \/ InsertOnOk
  \/ InsertOnError
  \/ \E i \in DOMAIN commentFetches : ServeComments(i) \/ CommentsOnData(i)
  \/ \E k \in DOMAIN commentChannels : DeliverComment(k)

\* the comment form of one card's dialog, for a few events
FormSpec == FormInit /\ [][FormNext]_vars

\* room for one more project
ProjectRoom ==
  Len(remoteProjects) + Cardinality({c \in DOMAIN creates : creates[c].pc = "req"})
    < Len(InitProjects) + MaxCreates

ProjectNext ==
  \/ FetchProjectsOk
  \/ OpenCreateProject
  \/ \E text \in NameInputs : TypeProjectName(text)
  \/ ProjectRoom /\ SubmitProject
  \/ \E c \in DOMAIN creates : ServeProject(c) \/ CreateOnOk(c) \/ CreateOnError(c)
  \/ \E i \in DOMAIN projFetches : ServeProjects(i) \/ ProjectsOnData(i)

\* the creation of projects on a board that has just been mounted
ProjectSpec == Init /\ [][ProjectNext]_vars

\* The board has just been mounted, with or without a session user, over a
\* tasks table that holds one task of the newest project.
CreateInit ==
  /\ remoteProjects = InitProjects
  /\ remoteTasks = [t \in TaskIds |->
       IF t = 1 THEN Slot("live", NewRow(t, Null))
       ELSE Slot("absent", NewRow(t, Null))]
  /\ remoteProfiles = [u \in UserIds |-> "ann"]
  /\ remoteOps = 0
  /\ mounted = TRUE
  /\ projects = <<>>
  /\ selectedProject = Null
  /\ tasks = <<>>
  /\ teamMembers = {}
  /\ toast = NoToast
  /\ projFetch = "req"
  /\ channels = <<>>
  /\ fetches = <<>>
  /\ issued = 0
  /\ drags = <<>>
  /\ moves = 0
  /\ hist = [last |-> "init", seq |-> 0, project |-> Null, synced |-> FALSE,
             clean |-> FALSE]
  /\ NoDialog
  /\ FiltersIdle
  /\ user \in {Null, SessionUser}

\* room for one more task
TaskRoom ==
  Cardinality({t \in TaskIds : Present(t)})
    + Cardinality({c \in DOMAIN creates : creates[c].pc = "req"}) < MaxCreates

CreateNext ==
  \/ FetchProjectsOk
  \/ OpenCreateProject
  \/ \E text \in NameInputs : TypeProjectName(text)
  \/ ProjectRoom /\ SubmitProject
  \/ OpenCreateTask
  \/ \E text \in NameInputs : TypeTitle(text)
  \/ TaskRoom /\ SubmitTask
  \/ \E c \in DOMAIN creates :
       \/ ServeProject(c)
       \/ \E t \in TaskIds : ServeTask(c, t)
       \/ CreateOnOk(c)
       \/ CreateOnError(c)
  \/ \E i \in DOMAIN projFetches : ServeProjects(i) \/ ProjectsOnData(i)

\* the creation of projects and tasks on a board that has just been mounted
CreateSpec == CreateInit /\ [][CreateNext]_vars

\* The sign-in page is shown and no board is mounted.
AuthInit ==
  /\ InitTables
  /\ mounted = FALSE
  /\ projects = <<>>
  /\ selectedProject = Null
  /\ tasks = <<>>
  /\ teamMembers = {}
  /\ toast = NoToast
  /\ projFetch = "done"
  /\ channels = <<>>
  /\ fetches = <<>>
  /\ issued = 0
  /\ drags = <<>>
  /\ moves = 0
  /\ hist = [last |-> "init", seq |-> 0, project |-> Null, synced |-> FALSE,
             clean |-> FALSE]
  /\ NoDialog
  /\ FiltersIdle
  /\ user = Null

AuthNext ==
  \/ SetIsLogin
  \/ \E text \in Emails : SetEmail(text)
  \/ \E text \in DisplayNames : SetDisplayName(text)
  \/ HandleAuth
  \/ AuthOnOk
  \/ AuthOnError
  \/ \E email \in Emails, meta \in MetaNames : SignUpElsewhere(email, meta)

\* the sign-in page and the trigger of auth.users
AuthSpec == AuthInit /\ [][AuthNext]_vars

\* ---- claims ---------------------------------------------------------------
\* the rows of a local list without the assignee enrichment
Rows(list) ==
  [k \in DOMAIN list |->
     [id |-> list[k].id, title |-> list[k].title,
      description |-> list[k].description, status |-> list[k].status,
      project_id |-> list[k].project_id, assigned_to |-> list[k].assigned_to]]

\* fetch i hands its result to setTasks in this step
Applies(i) ==
  \/ FetchOnTasks(i) /\ AssignedIds(fetches[i].data) = {}
  \/ FetchOnProfiles(i)
  \/ FetchOnProfilesError(i)

\* C1: when the remote update of a drag move fails, the local task list right
\* after the failure is handled is the list as it was immediately before that
\* move's optimistic write, and the failure notification is shown.
C1_RollbackRestoresSnapshot ==
  [][\A j \in DOMAIN drags :
       (mounted /\ DragOnError(j)) =>
         (tasks' = drags[j].before /\ toast' = MoveFailed)]_vars

\* a failed move has been rolled back on a non-empty board
C1_Witness ==
  /\ mounted
  /\ hist.last = "revert"
  /\ toast = MoveFailed
  /\ tasks # <<>>

\* C2: dropping task X of local status S on the column of another status Y
\* shows X with status Y at once and issues exactly one remote update
\* (id = X, status = Y); on success the handler leaves the list as it is, on
\* failure X is shown with status S again.
C2_OptimisticMove ==
  [][/\ \A t \in TaskIds, o \in ColumnIds :
          (/\ moves' # moves
           /\ Has(tasks, t)
           /\ Find(tasks, t).status # StripColumn(o)
           /\ DragEnd(t, o)) =>
            /\ Has(tasks', t)
            /\ Find(tasks', t).status = StripColumn(o)
            /\ Len(drags') = Len(drags) + 1
            /\ SubSeq(drags', 1, Len(drags)) = drags
            /\ drags'[Len(drags')].id = t
            /\ drags'[Len(drags')].status = StripColumn(o)
            /\ drags'[Len(drags')].pc = "req"
     /\ \A j \in DOMAIN drags : DragOnOk(j) => tasks' = tasks
     /\ \A j \in DOMAIN drags :
          (mounted /\ DragOnError(j)) =>
            /\ Has(tasks', drags[j].id)
            /\ Find(tasks', drags[j].id).status = drags[j].from]_vars

\* the list shows the new status while the update is still on its way
C2_Witness ==
  \E j \in DOMAIN drags :
     /\ drags[j].pc = "req"
     /\ drags[j].status # drags[j].from
     /\ Has(tasks, drags[j].id)
     /\ Find(tasks, drags[j].id).status = drags[j].status

\* C3: a re-fetch issued by a change notification and applied between a move's
\* optimistic write and the handling of its response wins: handling the
\* response (success or failure) leaves the re-fetched list in place.
C3_RefetchWins ==
  [][\A j \in DOMAIN drags :
       (mounted /\ hist.last = "refetch" /\ (DragOnOk(j) \/ DragOnError(j))) =>
         tasks' = tasks]_vars

\* C4: of two fetches in flight for the same project, the later issued one's
\* result is the list retained: once it is the list, the response of an
\* earlier issued fetch does not replace it.
C4_LaterFetchRetained ==
  [][\A i \in DOMAIN fetches :
       (/\ mounted
        /\ hist.last \in {"fetch", "refetch"}
        /\ hist.project = fetches[i].project
        /\ hist.seq > fetches[i].seq
        /\ Applies(i)) =>
         tasks' = tasks]_vars

\* nothing is on its way: no remote call, no change notification
Quiet ==
  /\ projFetch = "done"
  /\ fetches = <<>>
  /\ drags = <<>>
  /\ \A k \in DOMAIN channels : channels[k].pending = 0

IdStatus(list) == {<<list[k].id, list[k].status>> : k \in DOMAIN list}

\* C5: when no remote call fails and everything on its way has been delivered,
\* the local task list holds the tasks of the active project with their remote
\* status.
C5_Converged ==
  (mounted /\ selectedProject # Null /\ Quiet) =>
    IdStatus(tasks) = IdStatus(SelectTasks(selectedProject))

\* C6: once a fetch issued for the active project has been applied, every task
\* of the local list belongs to the active project.
C6_MirrorsActiveProject ==
  (mounted /\ hist.synced) =>
    \A k \in DOMAIN tasks : tasks[k].project_id = selectedProject

\* C7: at most one task change subscription is live, it is filtered on the
\* active project, and none is live once the board is unmounted.
C7_OneSubscription ==
  /\ Len(channels) <= 1
  /\ channels # <<>> => (mounted /\ channels[1].project = selectedProject)

\* the project has been switched and the one subscription is on the new one
C7_Witness ==
  /\ mounted
  /\ selectedProject \notin {Null, SelectProjects[1]}
  /\ Len(channels) = 1
  /\ channels[1].project = selectedProject

\* C9: a change notification for the active project issues a task fetch for
\* that project, and a fetch that succeeds replaces the local list by exactly
\* the fetched rows.
C9_NotificationRefetchReplaces ==
  [][/\ \A k \in DOMAIN channels :
          (channels[k].project = selectedProject /\ DeliverChange(k)) =>
            /\ Len(fetches') = Len(fetches) + 1
            /\ fetches'[Len(fetches')].project = selectedProject
            /\ fetches'[Len(fetches')].pc = "tasksReq"
     /\ \A i \in DOMAIN fetches :
          (mounted /\ Applies(i)) => Rows(tasks') = fetches[i].data]_vars

\* a re-fetch has dropped a task that another client deleted
C9_Witness ==
  /\ mounted
  /\ hist.last = "refetch"
  /\ hist.project = selectedProject
  /\ tasks # <<>>
  /\ \E t \in TaskIds :
       /\ remoteTasks[t].state = "gone"
       /\ ProjectOf(t) = selectedProject
       /\ ~Has(tasks, t)

\* C10: a fetch that read the same tables as the fetch that wrote the list
\* (no mutation since either read them) leaves the list, enrichment included,
\* as it is.
C10_FetchIdempotent ==
  [][\A i \in DOMAIN fetches :
       (/\ mounted
        /\ hist.last \in {"fetch", "refetch"}
        /\ hist.project = fetches[i].project
        /\ hist.clean
        /\ ~fetches[i].dirty
        /\ Applies(i)) =>
         tasks' = tasks]_vars

\* C8: at most one comment subscription is live, and none is live while the
\* dialog is closed or unmounted.
C8_CommentSubscriptionReleased ==
  /\ Len(commentChannels) <= 1
  /\ ~(cardMounted /\ isDetailsOpen) => commentChannels = <<>>

\* C11: when the tasks select of a fetch fails, the local task list is left
\* as it was and the failure notification is shown.
C11_FailedFetchKeepsList ==
  [][\A i \in DOMAIN fetches :
       FetchOnTasksError(i) => (tasks' = tasks /\ toast' = FetchTasksFailed)]_vars

\* a fetch has failed over a list that holds tasks
C11_Witness ==
  /\ mounted
  /\ toast = FetchTasksFailed
  /\ tasks # <<>>

\* C12: every remote call of the board that fails surfaces a notification:
\* when none is on display and a failure is handled, one is on display after.
C12_EveryFailureNotifies ==
  [][(/\ mounted
      /\ toast = NoToast
      /\ \/ FetchProjectsFail
         \/ \E i \in DOMAIN fetches :
              FetchOnTasksError(i) \/ FetchOnProfilesError(i) \/ FetchOnMembersError(i)
         \/ \E j \in DOMAIN drags : DragOnError(j)) =>
       toast' # NoToast]_vars

\* C13: once a comment submission has finished, in whatever way, the loading
\* flag of the comment form is false again.
C13_FormsReady ==
  (cardMounted /\ submit.pc = "idle") => ~loading

\* C14: a drag end with no drop target, of a task that is not in the local
\* list, or onto the column of the task's current local status changes neither
\* the local list nor the remote table and issues no remote call: a step that
\* changes one of them is no such drag end.
C14_DragEndNoOp ==
  [][\/ (tasks' = tasks /\ drags' = drags /\ remoteTasks' = remoteTasks)
     \/ \A t \in TaskIds, o \in ColumnIds \cup {NoOver} :
          (\/ o = NoOver
           \/ ~Has(tasks, t)
           \/ \E s \in Statuses : o = ColumnOf(s) /\ Find(tasks, t).status = s)
            => ~DragEnd(t, o)]_vars

\* a task has been dropped on a column and now has that column's status in
\* the local list, so that a further drop on the same column is the no-op case
C14_Witness ==
  /\ mounted
  /\ \E j \in DOMAIN drags :
       /\ Has(tasks, drags[j].id)
       /\ ColumnOf(Find(tasks, drags[j].id).status) \in ColumnIds
       /\ Find(tasks, drags[j].id).status = drags[j].status
  /\ \E t \in TaskIds : ~Has(tasks, t)

\* C15: every task of the local list has one of the three statuses, and so
\* has every status a drag writes remotely.
C15_StatusInDomain ==
  /\ \A k \in DOMAIN tasks : tasks[k].status \in Statuses
  /\ \A j \in DOMAIN drags : drags[j].status \in Statuses
  /\ \A t \in TaskIds : remoteTasks[t].row.status \in Statuses

\* a move has been written remotely, another has been rolled back
C15_Witness ==
  /\ mounted
  /\ tasks # <<>>
  /\ hist.last = "revert"
  /\ \E j \in DOMAIN drags : drags[j].pc = "ok" /\ Present(drags[j].id)

\* C16: no step changes the project_id of a row of the tasks table or of a
\* task of the local list, and the optimistic write of a drag changes the
\* status of the dragged task and nothing else: every other field, every
\* other task and the order of the list are kept.
C16_ProjectFixedStatusOnly ==
  [][/\ \A t \in TaskIds :
          (Present(t) /\ remoteTasks'[t].state = "live") =>
            remoteTasks'[t].row.project_id = remoteTasks[t].row.project_id
     /\ \A k \in DOMAIN tasks, n \in DOMAIN tasks' :
          tasks'[n].id = tasks[k].id => tasks'[n].project_id = tasks[k].project_id
     /\ \A t \in TaskIds, o \in ColumnIds :
          (moves' # moves /\ DragEnd(t, o)) =>
            /\ DOMAIN tasks' = DOMAIN tasks
            /\ \A k \in DOMAIN tasks :
                 /\ tasks[k].id # t => tasks'[k] = tasks[k]
                 /\ tasks[k].id = t =>
                      /\ tasks'[k].status = StripColumn(o)
                      /\ \A f \in DOMAIN tasks[k] \ {"status"} :
                           tasks'[k][f] = tasks[k][f]
                      /\ DOMAIN tasks'[k] = DOMAIN tasks[k]]_vars

\* the save of the dialog, with another status chosen in its editor, has been
\* written and answered: the row has the new status and its project
C16_Witness ==
  /\ toast = Saved
  /\ ~isDetailsOpen
  /\ Len(tasks) > 1
  /\ Present(cardTask)
  /\ remoteTasks[cardTask].row.status = "completed"
  /\ remoteTasks[cardTask].row.project_id = ProjectOf(cardTask)

\* ids of the tasks of a list
IdsOf(list) == {list[k].id : k \in DOMAIN list}

\* C17: before filtering, the three columns are pairwise disjoint and their
\* union is the whole list: each task is in exactly one column, the one of
\* its status.
C17_ColumnsPartition ==
  /\ \A s1 \in Statuses, s2 \in Statuses :
       s1 # s2 => IdsOf(Partition(tasks, s1)) \cap IdsOf(Partition(tasks, s2)) = {}
  /\ UNION {IdsOf(Partition(tasks, s)) : s \in Statuses} = IdsOf(tasks)
  /\ \A k \in DOMAIN tasks, s \in Statuses :
       (\E n \in DOMAIN Partition(tasks, s) : Partition(tasks, s)[n] = tasks[k])
         <=> tasks[k].status = s

\* two tasks of the list are in different columns
C17_Witness ==
  /\ mounted
  /\ \E k \in DOMAIN tasks, n \in DOMAIN tasks : tasks[k].status # tasks[n].status

\* C18: with the my-tasks toggle off, an empty search text and the assignee
\* filter "all" leave every column equal to its partition; an empty search
\* text alone, and the filter "all" alone, change nothing whatever the other
\* filters are.
C18_EmptyFiltersNoOp ==
  \A s \in Statuses :
    LET column == Partition(tasks, s) IN
    /\ (~myTasksOnly /\ query = <<>> /\ assigneeFilter = AllAssignees) =>
         Displayed(s) = column
    /\ query = <<>> =>
         Displayed(s) = ApplyFilters(column, assigneeFilter, myTasksOnly, user)
    /\ assigneeFilter = AllAssignees =>
         Displayed(s) = FilterByQuery(FilterMine(column, myTasksOnly, user), query)

\* the search text is empty and the filter "all" is in force, the toggle is
\* on, and it hides a task of a column that shows another
C18_Witness ==
  /\ query = <<>>
  /\ assigneeFilter = AllAssignees
  /\ myTasksOnly
  /\ user \in UserIds
  /\ \E s \in Statuses :
       /\ Displayed(s) # <<>>
       /\ Displayed(s) # Partition(tasks, s)

\* C19: with the my-tasks toggle on and an assignee filter that selects
\* something other than the session user, all three columns are empty.
C19_DisagreeingFiltersEmpty ==
  (/\ myTasksOnly
   /\ assigneeFilter # AllAssignees
   /\ ~(assigneeFilter.kind = "id" /\ assigneeFilter.id = user)) =>
    \A s \in Statuses : Displayed(s) = <<>>

\* a task passes the search text, the assignee filter and the my-tasks toggle
Passes(t) ==
  /\ Matches(t, ToLowerCase(query))
  /\ \/ assigneeFilter = AllAssignees
     \/ assigneeFilter.kind = "unassigned" /\ t.assigned_to = Null
     \/ assigneeFilter.kind = "id" /\ t.assigned_to = assigneeFilter.id
  /\ myTasksOnly => (user # Null /\ t.assigned_to = user)

\* C20: a displayed column holds exactly the tasks of its status whose title
\* or description contains the search text, case-insensitively, whose
\* assignee is the selected one (none for "unassigned"), and, with the
\* my-tasks toggle on, whose assignee is the session user.
C20_ColumnIsFilteredPartition ==
  \A s \in Statuses :
    Displayed(s) = SelectSeq(Partition(tasks, s), Passes)

\* C21: a change of the search text, of the assignee filter or of the
\* my-tasks toggle leaves the local task list as it is and issues no remote
\* call: no fetch, no move, no card call, no write to the tables.
C21_FiltersKeepList ==
  [][(\/ \E text \in Queries : SetQuery(text)
      \/ \E af \in AssigneeOptions : SetAssigneeFilter(af)
      \/ \E checked \in BOOLEAN : SetMyTasksOnly(checked)) =>
       /\ tasks' = tasks
       /\ remoteTasks' = remoteTasks
       /\ fetches' = fetches /\ issued' = issued
       /\ drags' = drags /\ cardCalls' = cardCalls]_vars

\* the three filters are set and hide a task of the list, which is whole
C21_Witness ==
  /\ myTasksOnly
  /\ query # <<>>
  /\ assigneeFilter # AllAssignees
  /\ user \in UserIds
  /\ Len(tasks) = Cardinality(OnBoard)
  /\ \E s \in Statuses : Displayed(s) # Partition(tasks, s)

\* a text that is empty or holds white space only
Blank(text) == \A k \in DOMAIN text : text[k] = Space

\* C22: submitting a comment whose text is empty or white space only issues
\* no remote call and leaves the comment list and the form as they are.
C22_BlankCommentRejected ==
  [][\/ /\ remoteComments' = remoteComments
        /\ comments' = comments
        /\ commentFetches' = commentFetches
        /\ <<newComment, loading, submit>>' = <<newComment, loading, submit>>
     \/ ~(Blank(newComment) /\ SubmitComment)]_vars

\* the open dialog holds a comment of white space, ready to be submitted,
\* after a comment has been submitted
C22_Witness ==
  /\ cardMounted
  /\ isDetailsOpen
  /\ ~loading
  /\ newComment = <<Space>>
  /\ submit = Idle
  /\ Len(remoteComments) > 1

\* C23: no step of a comment submission changes the local comment list; the
\* list changes only when a comment fetch hands over its data, a comment
\* fetch is issued only by a change notification or by the opening of the
\* dialog, and the list is always in ascending order of creation.
C23_CommentsOnlyByFetch ==
  [][/\ comments' # comments =>
          \E i \in DOMAIN commentFetches : CommentsOnData(i)
     /\ Len(commentFetches') > Len(commentFetches) =>
          (OpenDetails \/ \E k \in DOMAIN commentChannels : DeliverComment(k))
     /\ \A a \in DOMAIN comments', b \in DOMAIN comments' :
          a < b => comments'[a].id < comments'[b].id]_vars

\* the submitted comment, trimmed, is shown after the older one, and the
\* submission is over
C23_Witness ==
  /\ cardMounted
  /\ submit = Idle
  /\ ~loading
  /\ Len(comments) = 2
  /\ comments[2].comment = <<"a">>
  /\ comments[2].task_id = cardTask

\* C24: when a task fetch writes the list, a task assigned to a user for whom
\* the batched profile lookup returned no record is labelled "Unassigned" and
\* keeps its assigned_to: the assignee filter on that user selects it and the
\* "unassigned" filter does not.
C24_MissingProfileShownUnassigned ==
  [][\A i \in DOMAIN fetches :
       (mounted /\ FetchOnProfiles(i)) =>
         LET found == {pr.id : pr \in SelectProfiles(AssignedIds(fetches[i].data))} IN
         /\ Len(tasks') = Len(fetches[i].data)
         /\ \A k \in DOMAIN tasks' :
              LET U == fetches[i].data[k].assigned_to IN
              (U # Null /\ U \notin found) =>
                /\ AssigneeLabel(tasks'[k]) = "Unassigned"
                /\ tasks'[k].assigned_to = U
                /\ \E n \in DOMAIN FilterAssignee(tasks', [kind |-> "id", id |-> U]) :
                     FilterAssignee(tasks', [kind |-> "id", id |-> U])[n].id = tasks'[k].id
                /\ \A n \in DOMAIN FilterAssignee(tasks', [kind |-> "unassigned", id |-> Null]) :
                     FilterAssignee(tasks', [kind |-> "unassigned", id |-> Null])[n].id
                       # tasks'[k].id]_vars

\* the list of the last fetch holds a task that is assigned and has no profile
C24_Witness ==
  /\ mounted
  /\ hist.last \in {"fetch", "refetch"}
  /\ \E k \in DOMAIN tasks :
       /\ tasks[k].assigned_to \in UserIds
       /\ tasks[k].assignee = Undefined
       /\ remoteProfiles[tasks[k].assigned_to] = NoRow

\* C25: when the list of projects is fetched again after a project was
\* created, the new project is the first of the list; it becomes the active
\* project if none was selected, and the active project is unchanged otherwise.
C25_CreatedProjectFirst ==
  [][\A i \in DOMAIN projFetches :
       ProjectsOnData(i) /\ mounted =>
         /\ projects' # <<>>
         /\ projects'[1] = projFetches[i].made
         /\ selectedProject = Null => selectedProject' = projFetches[i].made
         /\ selectedProject # Null => selectedProject' = selectedProject]_vars

\* C26: while there is no session user, no insert of a comment, of a task or
\* of a project is in flight.
C26_NoInsertWithoutUser ==
  user = Null =>
    /\ submit.pc # "insert"
    /\ \A c \in DOMAIN creates : creates[c].pc # "req"

\* C27: no insert of a project is issued with a blank name, and no insert or
\* save of a task with a blank title.
C27_RequiredFieldsFilled ==
  /\ \A c \in DOMAIN creates :
       creates[c].pc = "req" =>
         IF creates[c].kind = "project" THEN ~Blank(creates[c].row.name)
         ELSE ~Blank(creates[c].row.title)
  /\ \A c \in DOMAIN cardCalls :
       (cardCalls[c].pc = "req" /\ cardCalls[c].kind = "save") =>
         ~Blank(cardCalls[c].updates.title)

\* C28: every user has exactly one profile, whose display_name is the display
\* name given at sign-up, and the local part of the email when none was given
\* or an empty one was sent.
C28_OneProfilePerSignUp ==
  \A k \in DOMAIN authTables.users :
    LET u == authTables.users[k]
        own == {j \in DOMAIN authTables.profiles : authTables.profiles[j].id = u.id} IN
    /\ Cardinality(own) = 1
    /\ \A j \in own :
         authTables.profiles[j].display_name =
           IF u.meta = NullText \/ u.meta = <<>> THEN SplitPart(u.email, At) ELSE u.meta

\* C29: when the update of a drag move fails while the update of a drag move
\* of another task has succeeded and its response is still to be handled, the
\* rollback leaves the local status of that other task as it is.
C29_RollbackKeepsOtherMove ==
  [][\A j \in DOMAIN drags :
       (mounted /\ DragOnError(j)) =>
         \A i \in DOMAIN drags :
           (drags[i].id # drags[j].id /\ drags[i].pc = "ok"
              /\ Has(tasks, drags[i].id)) =>
             /\ Has(tasks', drags[i].id)
             /\ Find(tasks', drags[i].id).status = Find(tasks, drags[i].id).status]_vars

\* C30: a menu action of a card (a move to any status, the task's own
\* included, or the delete) issues its remote call and changes neither the
\* local list nor the fetches; when the call succeeded the handler issues one
\* fetch of the tasks and leaves the list as it is; when the call failed it
\* issues no fetch, shows its notification and leaves the list as it is.
C30_MenuNotOptimistic ==
  [][\/ cardCalls' = cardCalls
     \/ /\ \A s \in Statuses :
             MenuStatus(s) =>
               /\ tasks' = tasks
               /\ fetches' = fetches
               /\ cardCalls' = Append(cardCalls,
                    [kind |-> "menu", pc |-> "req", id |-> cardTask,
                     updates |-> [status |-> s]])
        /\ MenuDelete =>
             /\ tasks' = tasks
             /\ fetches' = fetches
             /\ Len(cardCalls') = Len(cardCalls) + 1
             /\ cardCalls'[Len(cardCalls')].pc = "req"
        /\ \A c \in DOMAIN cardCalls :
             cardCalls[c].kind # "save" =>
               /\ CardOnOk(c) =>
                    /\ tasks' = tasks
                    /\ issued' = issued + 1
                    /\ Len(fetches') = Len(fetches) + 1
               /\ CardOnError(c) =>
                    /\ tasks' = tasks
                    /\ fetches' = fetches
                    /\ issued' = issued
                    /\ toast' = IF cardCalls[c].kind = "delete" THEN DeleteFailed
                                ELSE StatusFailed]_vars

\* the delete of the menu has been applied and answered and its fetch issued,
\* while the local list still holds the task
C30_Witness ==
  /\ toast = Deleted
  /\ remoteTasks[cardTask].state = "gone"
  /\ Has(tasks, cardTask)
  /\ cardCalls = <<>>
  /\ fetches # <<>>

====
